---- MODULE Spec2Model ----
(***************************************************************************)
(* Contact-record persistence of the personal page: the Contacto domain    *)
(* object, the localStorage-backed ContactRepository of the component      *)
(* version (con_framework) with the ContactFacade insert path, and the     *)
(* three ContactoRepository variants of the framework-free version.        *)
(*                                                                         *)
(* JavaScript strings are sequences of one-character strings, so that      *)
(* trim(), toLowerCase() and the two regular expressions are computed.     *)
(* Timestamps (Date#toISOString) are readings of the integer clock `now`.  *)
(* Identifiers of the component version ("contact_<ms>_<rnd>") are the     *)
(* numbers 1..MaxId; 0 stands for a falsy/absent identifier.               *)
(*                                                                         *)
(* localStorage is the array held by the blob under the key "contactos";   *)
(* almacen tells what the key holds when it is not such an array, and      *)
(* cuota how many records the browser lets the key hold.  ui is what the   *)
(* last user-interface handler showed, enCurso an add of another tab       *)
(* between its read and its write, archivo the last exported file.  loader *)
(* is the ComponentLoader of the page and the scripts it put into the      *)
(* document, debounced a function wrapped by debounce() with its timer.    *)
(***************************************************************************)
EXTENDS Integers, Sequences, FiniteSets, TLC

VARIABLES impl, globalsDefined, localStorage, almacen, cuota, repo, now, last,
          ui, enCurso, archivo, loader, debounced

vars == <<impl, globalsDefined, localStorage, almacen, cuota, repo, now, last,
          ui, enCurso, archivo, loader, debounced>>

(***************************************************************************)
(* Bounds of the model.                                                    *)
(***************************************************************************)
MaxId == 2
MaxContacts == 2
MaxSfContacts == 3
MaxTime == 1
\* Entries of loadOrder that the page has, loads that may start and
\* on-demand calls that may be made.
MaxComponents == 4
MaxCargas == 2
MaxDemandas == 1
MaxLlamadas == 3
MaxEspera == 2
MaxReloj == 4

(***************************************************************************)
(* Program constants.                                                      *)
(***************************************************************************)
MinNombre == 2
MaxNombre == 100
MinTelefono == 7
MaxTelefono == 15
MaxMensaje == 1000

Ids == 1..MaxId
NoDate == -1

(***************************************************************************)
(* Strings.                                                                *)
(***************************************************************************)
Rep(ch, n) == [i \in 1..n |-> ch]

IsWhitespace(ch) == ch = " "

RECURSIVE trimStart(_)
trimStart(s) ==
    IF s # <<>> /\ IsWhitespace(Head(s)) THEN trimStart(Tail(s)) ELSE s

RECURSIVE trimEnd(_)
trimEnd(s) ==
    IF s # <<>> /\ IsWhitespace(s[Len(s)])
    THEN trimEnd(SubSeq(s, 1, Len(s) - 1))
    ELSE s

\* String.prototype.trim
trim(s) == trimEnd(trimStart(s))

lowerChar(ch) ==
    CASE ch = "A" -> "a"
      [] ch = "B" -> "b"
      [] ch = "X" -> "x"
      [] OTHER -> ch

\* String.prototype.toLowerCase
toLowerCase(s) == [i \in DOMAIN s |-> lowerChar(s[i])]

\* /^[^\s@]+@[^\s@]+\.[^\s@]+$/.test(s)
emailRegexTest(s) ==
    \E i \in 2..Len(s) :
        /\ s[i] = "@"
        /\ \A j \in (1..Len(s)) \ {i} : ~IsWhitespace(s[j]) /\ s[j] # "@"
        /\ \E k \in (i + 2)..(Len(s) - 1) : s[k] = "."

PhoneChars == {"0", "1", "2", "3", "4", "5", "6", "7", "8", "9", " ", "-", "(", ")"}

\* /^[\+]?[\d\s\-\(\)]{7,15}$/.test(s)
phoneRegexTest(s) ==
    LET rest == IF s # <<>> /\ Head(s) = "+" THEN Tail(s) ELSE s
    IN  /\ Len(rest) >= MinTelefono
        /\ Len(rest) <= MaxTelefono
        /\ \A j \in 1..Len(rest) : rest[j] \in PhoneChars

(***************************************************************************)
(* Contacto (component version).                                           *)
(***************************************************************************)
\* new Contacto(data): gid is the value generateId() would return, t1 and
\* t2 the two readings of the clock.
Contacto(data, gid, t1, t2) ==
    [ id                  |-> IF data.id # 0 THEN data.id ELSE gid,
      nombre              |-> data.nombre,
      email               |-> data.email,
      telefono            |-> data.telefono,
      asunto              |-> data.asunto,
      mensaje             |-> data.mensaje,
      preferenciaContacto |-> IF data.preferenciaContacto # ""
                              THEN data.preferenciaContacto ELSE "Email",
      aceptaTerminos      |-> data.aceptaTerminos,
      fechaCreacion       |-> IF data.fechaCreacion # NoDate
                              THEN data.fechaCreacion ELSE t1,
      fechaActualizacion  |-> IF data.fechaActualizacion # NoDate
                              THEN data.fechaActualizacion ELSE t2 ]

\* touch() that leaves the modification date alone.
touch_sinEfecto(c, t) == c

touch(c, t) == [c EXCEPT !.fechaActualizacion = t]

Err(f, m) == [field |-> f, message |-> m]

nombreErrors(c) ==
    IF c.nombre = <<>> \/ Len(trim(c.nombre)) = 0
    THEN <<Err("nombre", "El nombre es obligatorio")>>
    ELSE IF Len(trim(c.nombre)) < MinNombre
    THEN <<Err("nombre", "El nombre debe tener al menos 2 caracteres")>>
    ELSE IF Len(trim(c.nombre)) > MaxNombre
    THEN <<Err("nombre", "El nombre no puede exceder 100 caracteres")>>
    ELSE <<>>

\* The email check without the format test.
emailErrors_soloVacio(c) ==
    IF c.email = <<>> \/ Len(trim(c.email)) = 0
    THEN <<Err("email", "El correo electronico es obligatorio")>>
    ELSE <<>>

emailErrors(c) ==
    IF c.email = <<>> \/ Len(trim(c.email)) = 0
    THEN <<Err("email", "El correo electronico es obligatorio")>>
    ELSE IF ~emailRegexTest(trim(c.email))
    THEN <<Err("email", "El formato del correo electronico no es valido")>>
    ELSE <<>>

telefonoErrors(c) ==
    IF c.telefono # <<>> /\ Len(trim(c.telefono)) > 0
       /\ ~phoneRegexTest(trim(c.telefono))
    THEN <<Err("telefono", "El formato del telefono no es valido")>>
    ELSE <<>>

asuntoErrors(c) ==
    IF c.asunto = <<>> \/ Len(trim(c.asunto)) = 0
    THEN <<Err("asunto", "Debe seleccionar un asunto de contacto")>>
    ELSE <<>>

mensajeErrors(c) ==
    IF c.mensaje # <<>> /\ Len(trim(c.mensaje)) > MaxMensaje
    THEN <<Err("mensaje", "El mensaje no puede exceder 1000 caracteres")>>
    ELSE <<>>

\* The terms check left out.
termsErrors_omitido(c) == <<>>

termsErrors(c) ==
    IF ~c.aceptaTerminos
    THEN <<Err("terms", "Debe aceptar los terminos y condiciones")>>
    ELSE <<>>

preferencasValidas == {"Email", "Telefono", "WhatsApp"}

preferenciaErrors(c) ==
    IF c.preferenciaContacto \notin preferencasValidas
    THEN <<Err("preferenciaContacto",
               "Debe seleccionar una preferencia de contacto valida")>>
    ELSE <<>>

\* Contacto.validate(): the errors list, in the order the checks push it.
validateErrors(c) ==
    nombreErrors(c) \o emailErrors(c) \o telefonoErrors(c) \o asuntoErrors(c)
        \o mensajeErrors(c) \o termsErrors(c) \o preferenciaErrors(c)

validate(c) ==
    [isValid |-> validateErrors(c) = <<>>, errors |-> validateErrors(c)]

\* toJSON() that trims the email but keeps its case.
toJSON_sinMinusculas(c) ==
    [ id                  |-> c.id,
      nombre              |-> trim(c.nombre),
      email               |-> trim(c.email),
      telefono            |-> trim(c.telefono),
      asunto              |-> c.asunto,
      mensaje             |-> trim(c.mensaje),
      preferenciaContacto |-> c.preferenciaContacto,
      aceptaTerminos      |-> c.aceptaTerminos,
      fechaCreacion       |-> c.fechaCreacion,
      fechaActualizacion  |-> c.fechaActualizacion ]

toJSON(c) ==
    [ id                  |-> c.id,
      nombre              |-> trim(c.nombre),
      email               |-> toLowerCase(trim(c.email)),
      telefono            |-> trim(c.telefono),
      asunto              |-> c.asunto,
      mensaje             |-> trim(c.mensaje),
      preferenciaContacto |-> c.preferenciaContacto,
      aceptaTerminos      |-> c.aceptaTerminos,
      fechaCreacion       |-> c.fechaCreacion,
      fechaActualizacion  |-> c.fechaActualizacion ]

\* Contacto.fromJSON(jsonData) evaluated at clock reading t.  A blob record
\* written by toJSON carries its identifier, so the generateId() operand is
\* only consulted for hand-written data without one.
fromJSON(jsonData, gid, t) == Contacto(jsonData, gid, t, t)

(***************************************************************************)
(* Inputs: the values a form field may carry and the records built from    *)
(* them: two acceptable forms, and DefaultDatos with one field replaced.   *)
(***************************************************************************)
DefaultDatos ==
    [ id                  |-> 0,
      nombre              |-> <<" ", "A", "b", " ">>,
      email               |-> <<"A", "@", "b", ".", "c">>,
      telefono            |-> <<" ", "1", "2", "3", "4", "5", "6", "7", " ">>,
      asunto              |-> <<"c">>,
      mensaje             |-> <<" ", "h", "i", " ">>,
      preferenciaContacto |-> "Email",
      aceptaTerminos      |-> TRUE,
      fechaCreacion       |-> NoDate,
      fechaActualizacion  |-> NoDate ]

\* Phone and message left empty, another email.
OtroDatos ==
    [ DefaultDatos EXCEPT !.nombre = <<"X", "b">>,
                          !.email = <<"x", "@", "b", ".", "c">>,
                          !.telefono = <<>>,
                          !.mensaje = <<>>,
                          !.preferenciaContacto = "WhatsApp" ]

Nombres == {<<>>, <<"a">>, Rep("a", MaxNombre + 1)}
Emails == {<<>>, <<"a", "@", "b">>, <<" ", "a", "@", "b", ".", "c">>}
Telefonos == {<<"1", "2">>}
Asuntos == {<<>>, <<" ">>}
Mensajes == {Rep("m", MaxMensaje + 1)}
Preferencias == {"Phone"}

\* What getFormData() can return: no identifier, no timestamps.
\* DatosValidos are the two forms every rule accepts.
DatosValidos == {DefaultDatos, OtroDatos}

Datos ==
    DatosValidos
    \cup {[DefaultDatos EXCEPT !.nombre = v] : v \in Nombres}
    \cup {[DefaultDatos EXCEPT !.email = v] : v \in Emails}
    \cup {[DefaultDatos EXCEPT !.telefono = v] : v \in Telefonos}
    \cup {[DefaultDatos EXCEPT !.asunto = v] : v \in Asuntos}
    \cup {[DefaultDatos EXCEPT !.mensaje = v] : v \in Mensajes}
    \cup {[DefaultDatos EXCEPT !.preferenciaContacto = v] : v \in Preferencias}
    \cup {[DefaultDatos EXCEPT !.aceptaTerminos = FALSE]}

\* The records a JSON file handed to importFromJSON may hold: exported
\* records and hand-edited ones (an upper-case email under an identifier
\* used twice, terms not accepted).
ImportItems ==
    { toJSON(Contacto(DefaultDatos, 1, 0, 0)),
      [toJSON(Contacto(OtroDatos, 1, 0, 0)) EXCEPT !.email = <<"X", "@", "b", ".", "c">>],
      toJSON(Contacto(OtroDatos, MaxId, 0, 0)),
      [toJSON(Contacto(DefaultDatos, MaxId, 0, 0)) EXCEPT !.aceptaTerminos = FALSE] }

RECURSIVE SeqsUpTo(_, _)
SeqsUpTo(S, n) ==
    IF n = 0 THEN {<<>>}
    ELSE LET shorter == SeqsUpTo(S, n - 1)
         IN  shorter \cup { Append(q, x) : q \in shorter, x \in S }

ImportArrays == SeqsUpTo(ImportItems, MaxContacts)

NoArg == [id |-> 0]

Outcome(op, arg, result, ret) ==
    [op |-> op, arg |-> arg, result |-> result, ret |-> ret]

ErrInvalido == "Error: Contacto invalido"
ErrMismoId == "Error: Ya existe un contacto con el mismo ID"
ErrNoEncontrado == "Error: Contacto no encontrado"
ErrEmail == "Error: Ya existe un contacto con ese correo electronico"
ErrFormulario == "Error: Por favor corrija los errores en el formulario"
ErrNoArray == "Error: El JSON debe contener un array de contactos"

(***************************************************************************)
(* ContactRepository (component version).                                  *)
(***************************************************************************)
\* getAll(): JSON.parse of the blob, every record through Contacto.fromJSON.
getAll(blob, t) == [i \in DOMAIN blob |-> fromJSON(blob[i], blob[i].id, t)]

\* Array.prototype.findIndex on the identifier.
findIndex(contacts, id) ==
    IF \E i \in DOMAIN contacts : contacts[i].id = id
    THEN CHOOSE i \in DOMAIN contacts :
             /\ contacts[i].id = id
             /\ \A j \in 1..(i - 1) : contacts[j].id # id
    ELSE -1

\* getById(id) is truthy
getById(blob, id, t) == findIndex(getAll(blob, t), id) # -1

\* saveToStorage(contacts): the blob that setItem writes.
saveToStorage(contacts) == [i \in DOMAIN contacts |-> toJSON(contacts[i])]

RemoveAt(s, i) == SubSeq(s, 1, i - 1) \o SubSeq(s, i + 1, Len(s))

ErrCuota == "Error: Espacio de almacenamiento insuficiente. Considere usar IndexedDB para mayor capacidad."
ErrAcceso == "SecurityError: The operation is insecure."

\* What the key holds: "ok" an array written by a repository, "ausente"
\* nothing (getItem returns null), "ilegible" a string on which JSON.parse,
\* map or the Contacto constructor throw, "denegado" a storage whose getItem
\* and setItem throw.
Almacenes == {"ok", "ausente", "ilegible", "denegado"}

\* handleStorageError() without its setItem.
handleStorageError_sinReiniciar == almacen

\* handleStorageError(): setItem of "[]", its own failure swallowed.
handleStorageError == IF almacen = "denegado" THEN almacen ELSE "ok"

\* What the key holds after getAll() has run: the catch of getAll calls
\* handleStorageError when getItem, JSON.parse, map or fromJSON throw.
TrasGetAll ==
    IF almacen \in {"ilegible", "denegado"} THEN handleStorageError ELSE almacen

ErrQuotaDOM == "QuotaExceededError: The quota has been exceeded."

\* saveToStorage without the test of error.name: the exception of setItem
\* is thrown on as it is.
setItem_sinDistinguir(contacts, exito) ==
    IF almacen = "denegado"
    THEN /\ last' = Outcome(exito.op, exito.arg, ErrAcceso, <<>>)
         /\ UNCHANGED <<localStorage, almacen>>
    ELSE IF Len(contacts) > cuota
    THEN /\ last' = Outcome(exito.op, exito.arg, ErrQuotaDOM, <<>>)
         /\ UNCHANGED localStorage
         /\ almacen' = TrasGetAll
    ELSE /\ localStorage' = saveToStorage(contacts)
         /\ almacen' = "ok"
         /\ last' = exito

\* saveToStorage(contacts) after getAll() has run: setItem throws when the
\* storage is denied or the blob exceeds the quota, and nothing is written;
\* exito is the outcome of the caller when the write succeeds.
setItem(contacts, exito) ==
    IF almacen = "denegado"
    THEN /\ last' = Outcome(exito.op, exito.arg, ErrAcceso, <<>>)
         /\ UNCHANGED <<localStorage, almacen>>
    ELSE IF Len(contacts) > cuota
    THEN /\ last' = Outcome(exito.op, exito.arg, ErrCuota, <<>>)
         /\ UNCHANGED localStorage
         /\ almacen' = TrasGetAll
    ELSE /\ localStorage' = saveToStorage(contacts)
         /\ almacen' = "ok"
         /\ last' = exito

\* A call that ends after getAll() without writing.
sinEscribir(outcome) ==
    /\ last' = outcome
    /\ almacen' = TrasGetAll
    /\ UNCHANGED localStorage

add(contacto) ==
    /\ impl = "ContactRepository"
    /\ IF ~validate(contacto).isValid
       THEN /\ last' = Outcome("add", contacto, ErrInvalido, <<>>)
            /\ UNCHANGED <<localStorage, almacen>>
       ELSE IF getById(localStorage, contacto.id, now)
       THEN sinEscribir(Outcome("add", contacto, ErrMismoId, <<>>))
       ELSE /\ Len(localStorage) < MaxContacts
            /\ setItem(Append(getAll(localStorage, now), contacto),
                       Outcome("add", contacto, "true", <<>>))
    /\ UNCHANGED <<impl, globalsDefined, cuota, repo, now, enCurso, archivo,
                   loader, debounced>>

update(contacto) ==
    /\ impl = "ContactRepository"
    /\ LET contacts == getAll(localStorage, now)
           index == findIndex(contacts, contacto.id)
       IN  IF ~validate(contacto).isValid
           THEN /\ last' = Outcome("update", contacto, ErrInvalido, <<>>)
                /\ UNCHANGED <<localStorage, almacen>>
           ELSE IF index = -1
           THEN sinEscribir(Outcome("update", contacto, ErrNoEncontrado, <<>>))
           ELSE setItem([contacts EXCEPT ![index] = touch(contacto, now)],
                        Outcome("update", contacto, "true", <<>>))
    /\ UNCHANGED <<impl, globalsDefined, cuota, repo, now, enCurso, archivo,
                   loader, debounced>>

remove(id) ==
    /\ impl = "ContactRepository"
    /\ LET contacts == getAll(localStorage, now)
           index == findIndex(contacts, id)
       IN  IF index = -1
           THEN sinEscribir(Outcome("remove", [id |-> id], ErrNoEncontrado, <<>>))
           ELSE setItem(RemoveAt(contacts, index),
                        Outcome("remove", [id |-> id], "true", <<>>))
    /\ UNCHANGED <<impl, globalsDefined, cuota, repo, now, enCurso, archivo,
                   loader, debounced>>

\* clear(): getAll() for the count, then setItem of "[]".
clear ==
    /\ impl = "ContactRepository"
    /\ IF almacen = "denegado"
       THEN /\ last' = Outcome("clear", NoArg, ErrAcceso, <<>>)
            /\ UNCHANGED <<localStorage, almacen>>
       ELSE /\ localStorage' = <<>>
            /\ almacen' = "ok"
            /\ last' = Outcome("clear", NoArg, "true", <<>>)
    /\ UNCHANGED <<impl, globalsDefined, cuota, repo, now, enCurso, archivo,
                   loader, debounced>>

getAllCall ==
    /\ impl = "ContactRepository"
    /\ sinEscribir(Outcome("getAll", NoArg, "returned", getAll(localStorage, now)))
    /\ UNCHANGED <<impl, globalsDefined, cuota, repo, now, enCurso, archivo,
                   loader, debounced>>

\* The forEach with unshift in place of push: imported records go to the
\* front.
RECURSIVE importLoop_alInicio(_, _, _, _, _)
importLoop_alInicio(data, k, blob, t, acc) ==
    IF k > Len(data) THEN acc
    ELSE LET contacto == fromJSON(data[k], data[k].id, t)
         IN  IF ~validate(contacto).isValid
             THEN importLoop_alInicio(data, k + 1, blob, t,
                                      [acc EXCEPT !.errors = @ + 1])
             ELSE IF getById(blob, contacto.id, t)
             THEN importLoop_alInicio(data, k + 1, blob, t,
                                      [acc EXCEPT !.skipped = @ + 1])
             ELSE importLoop_alInicio(data, k + 1, blob, t,
                                      [acc EXCEPT !.contacts = <<contacto>> \o @,
                                                  !.imported = @ + 1])

\* The forEach of importFromJSON over data[k..], acc being currentContacts
\* and the three counters.
RECURSIVE importLoop(_, _, _, _, _)
importLoop(data, k, blob, t, acc) ==
    IF k > Len(data) THEN acc
    ELSE LET contacto == fromJSON(data[k], data[k].id, t)
         IN  IF ~validate(contacto).isValid
             THEN importLoop(data, k + 1, blob, t,
                             [acc EXCEPT !.errors = @ + 1])
             ELSE IF getById(blob, contacto.id, t)
             THEN importLoop(data, k + 1, blob, t,
                             [acc EXCEPT !.skipped = @ + 1])
             ELSE importLoop(data, k + 1, blob, t,
                             [acc EXCEPT !.contacts = Append(@, contacto),
                                         !.imported = @ + 1])

importFromJSON(data, isArray) ==
    /\ impl = "ContactRepository"
    /\ IF ~isArray
       THEN /\ last' = Outcome("importFromJSON", [data |-> <<>>], ErrNoArray, <<>>)
            /\ UNCHANGED <<localStorage, almacen>>
       ELSE LET r == importLoop(data, 1, localStorage, now,
                                [contacts |-> getAll(localStorage, now),
                                 imported |-> 0, skipped |-> 0, errors |-> 0])
            IN  /\ Len(localStorage) + Len(data) <= MaxContacts
                /\ setItem(r.contacts,
                           Outcome("importFromJSON", [data |-> data], "returned",
                                   <<[imported |-> r.imported, skipped |-> r.skipped,
                                      errors |-> r.errors, total |-> Len(data)]>>))
    /\ UNCHANGED <<impl, globalsDefined, cuota, repo, now, enCurso, archivo,
                   loader, debounced>>

\* exportToJSON(): JSON.stringify of every record's toJSON(); the string is
\* held as the array it denotes.
exportToJSON(blob, t) == saveToStorage(getAll(blob, t))

\* The exported string is kept as a file, with the collection it came from.
exportToJSONCall ==
    /\ impl = "ContactRepository"
    /\ LET json == exportToJSON(localStorage, now)
       IN  /\ archivo' = [hay |-> TRUE, json |-> json, origen |-> localStorage]
           /\ sinEscribir(Outcome("exportToJSON", NoArg, "returned", json))
    /\ UNCHANGED <<impl, globalsDefined, cuota, repo, now, enCurso, loader,
                   debounced>>

\* existsByEmail comparing the emails as they are.
existsByEmail_exacto(blob, email, t) ==
    \E i \in DOMAIN blob : getAll(blob, t)[i].email = email

\* existsByEmail(email) with the default excludeId = null.
existsByEmail(blob, email, t) ==
    \E i \in DOMAIN blob :
        toLowerCase(getAll(blob, t)[i].email) = toLowerCase(email)

(***************************************************************************)
(* ContactFacade.guardarContacto: validateForm builds a temporary Contacto *)
(* and validates it; a second Contacto is then built, checked against the  *)
(* stored emails and added.  The clock may advance between the two Date    *)
(* readings of the constructor.                                            *)
(***************************************************************************)
\* guardarContacto without the look at the stored emails.
guardarContacto_sinEmail(datosFormulario, gid, t2) ==
    /\ impl = "ContactRepository"
    /\ t2 \in {now, now + 1}
    /\ t2 <= MaxTime
    /\ now' = t2
    /\ LET contacto == Contacto(datosFormulario, gid, now, t2)
       IN  IF ~validate(contacto).isValid
           THEN /\ last' = Outcome("guardarContacto", contacto, ErrFormulario, <<>>)
                /\ UNCHANGED <<localStorage, almacen>>
           ELSE IF getById(localStorage, contacto.id, t2)
           THEN sinEscribir(Outcome("guardarContacto", contacto, ErrMismoId, <<>>))
           ELSE /\ Len(localStorage) < MaxContacts
                /\ setItem(Append(getAll(localStorage, t2), contacto),
                           Outcome("guardarContacto", contacto, "true", <<>>))
    /\ UNCHANGED <<impl, globalsDefined, cuota, repo, enCurso, archivo,
                   loader, debounced>>

guardarContacto(datosFormulario, gid, t2) ==
    /\ impl = "ContactRepository"
    /\ t2 \in {now, now + 1}
    /\ t2 <= MaxTime
    /\ now' = t2
    /\ LET contacto == Contacto(datosFormulario, gid, now, t2)
       IN  IF ~validate(contacto).isValid
           THEN /\ last' = Outcome("guardarContacto", contacto, ErrFormulario, <<>>)
                /\ UNCHANGED <<localStorage, almacen>>
           ELSE IF existsByEmail(localStorage, contacto.email, t2)
           THEN sinEscribir(Outcome("guardarContacto", contacto, ErrEmail, <<>>))
           ELSE IF getById(localStorage, contacto.id, t2)
           THEN sinEscribir(Outcome("guardarContacto", contacto, ErrMismoId, <<>>))
           ELSE /\ Len(localStorage) < MaxContacts
                /\ setItem(Append(getAll(localStorage, t2), contacto),
                           Outcome("guardarContacto", contacto, "true", <<>>))
    /\ UNCHANGED <<impl, globalsDefined, cuota, repo, enCurso, archivo,
                   loader, debounced>>

(***************************************************************************)
(* add(contacto) run by the repository of another tab on the same key: the *)
(* tab has validated the record, found its identifier free and read the    *)
(* array (tabLeer); the push and the setItem come later (tabEscribir), and *)
(* this tab may run in between.  The outcome stays in the other tab.       *)
(***************************************************************************)
tabLeer(contacto) ==
    /\ impl = "ContactRepository"
    /\ enCurso.pc # "leido"
    /\ validate(contacto).isValid
    /\ ~getById(localStorage, contacto.id, now)
    /\ Len(localStorage) < MaxContacts
    /\ enCurso' = [pc |-> "leido", contacts |-> getAll(localStorage, now),
                   contacto |-> contacto, result |-> ""]
    /\ almacen' = TrasGetAll
    /\ UNCHANGED <<impl, globalsDefined, localStorage, cuota, repo, now, last,
                   ui, archivo, loader, debounced>>

\* The write of the other tab done on the array as it is now, read again.
tabEscribir_relee ==
    /\ impl = "ContactRepository"
    /\ enCurso.pc = "leido"
    /\ LET contacts == Append(getAll(localStorage, now), enCurso.contacto)
           hecho(r) == [pc |-> "hecho", contacts |-> <<>>,
                        contacto |-> enCurso.contacto, result |-> r]
       IN  IF almacen = "denegado"
           THEN /\ enCurso' = hecho(ErrAcceso)
                /\ UNCHANGED <<localStorage, almacen>>
           ELSE IF Len(contacts) > cuota
           THEN /\ enCurso' = hecho(ErrCuota)
                /\ UNCHANGED <<localStorage, almacen>>
           ELSE /\ localStorage' = saveToStorage(contacts)
                /\ almacen' = "ok"
                /\ enCurso' = hecho("true")
    /\ UNCHANGED <<impl, globalsDefined, cuota, repo, now, last, ui, archivo,
                   loader, debounced>>

\* The push and the setItem of the other tab, on the array it read.
tabEscribir ==
    /\ impl = "ContactRepository"
    /\ enCurso.pc = "leido"
    /\ LET contacts == Append(enCurso.contacts, enCurso.contacto)
           hecho(r) == [pc |-> "hecho", contacts |-> <<>>,
                        contacto |-> enCurso.contacto, result |-> r]
       IN  IF almacen = "denegado"
           THEN /\ enCurso' = hecho(ErrAcceso)
                /\ UNCHANGED <<localStorage, almacen>>
           ELSE IF Len(contacts) > cuota
           THEN /\ enCurso' = hecho(ErrCuota)
                /\ UNCHANGED <<localStorage, almacen>>
           ELSE /\ localStorage' = saveToStorage(contacts)
                /\ almacen' = "ok"
                /\ enCurso' = hecho("true")
    /\ UNCHANGED <<impl, globalsDefined, cuota, repo, now, last, ui, archivo,
                   loader, debounced>>

\* Another page of the origin removes the key.
Quitar ==
    /\ almacen = "ok"
    /\ impl \in {"ContactRepository", "part_001"}
    /\ almacen' = "ausente"
    /\ localStorage' = <<>>
    /\ UNCHANGED <<impl, globalsDefined, cuota, repo, now, last, ui, enCurso,
                   archivo, loader, debounced>>

\* Something else writes under the key a string that is no JSON array.
Corromper ==
    /\ impl = "ContactRepository"
    /\ almacen = "ok"
    /\ almacen' = "ilegible"
    /\ localStorage' = <<>>
    /\ UNCHANGED <<impl, globalsDefined, cuota, repo, now, last, ui, enCurso,
                   archivo, loader, debounced>>

\* Other keys of the origin grow or shrink: the room left for this key
\* changes.
Llenar ==
    /\ impl = "ContactRepository"
    /\ \E c \in 0..MaxContacts : c # cuota /\ cuota' = c
    /\ UNCHANGED <<impl, globalsDefined, localStorage, almacen, repo, now, last,
                   ui, enCurso, archivo, loader, debounced>>

\* Time passes.
Tick ==
    /\ now < MaxTime
    /\ now' = now + 1
    /\ UNCHANGED <<impl, globalsDefined, localStorage, almacen, cuota, repo,
                   last, ui, enCurso, archivo, loader, debounced>>

(***************************************************************************)
(* ComponentLoader.  A script element put into document.head is            *)
(* [src, por, estado]: por is the number of the loadAllComponents run that *)
(* appended it (0 for loadComponentOnDemand), estado tells whether its     *)
(* load or error event has fired.  What follows an await whose promise is  *)
(* settled runs in the microtasks of the same task, before any other event *)
(* or call: it is part of the step.                                        *)
(***************************************************************************)
loadOrderCompleto ==
    << "atoms/Button.js", "atoms/Input.js", "atoms/Badge.js",
       "molecules/Card.js", "molecules/Form.js", "molecules/Table.js",
       "organisms/Header.js", "organisms/Sections.js", "organisms/Footer.js",
       "templates/PageTemplate.js", "pages/MainPage.js" >>

\* this.loadOrder, as far as the page has the files.
loadOrder ==
    SubSeq(loadOrderCompleto, 1,
           IF MaxComponents < Len(loadOrderCompleto)
           THEN MaxComponents ELSE Len(loadOrderCompleto))

\* componentMap of loadComponentOnDemand; a name it does not hold maps to
\* no path.
componentNames ==
    << "Button", "Input", "Badge", "Card", "Form", "Table", "Header",
       "Sections", "Footer", "PageTemplate", "MainPage" >>
SinPath == ""
componentMap(componentName) ==
    IF \E i \in DOMAIN loadOrder : componentNames[i] = componentName
    THEN loadOrder[CHOOSE i \in DOMAIN loadOrder : componentNames[i] = componentName]
    ELSE SinPath

\* The names asked for on demand: those of loadOrder and an unknown one.
Nombrables == {componentNames[i] : i \in DOMAIN loadOrder} \cup {"Modal"}

\* `components/${componentPath}`
fullPath(componentPath) == <<"components/", componentPath>>

SinCarga == [pc |-> "idle", k |-> 0, script |-> 0]

\* new ComponentLoader(), nothing in the document yet.
loaderInicial ==
    [ isLoading |-> FALSE, loadedComponents |-> {}, head |-> <<>>,
      carga |-> SinCarga, cargas |-> 0, demandas |-> 0, esperas |-> {},
      inits |-> 0, mainPage |-> "none",
      ultimo |-> [op |-> "constructor", arg |-> "", result |-> ""] ]

\* loadComponent(componentPath) up to its return: nothing when the path is
\* in loadedComponents, else a new script element in document.head.
loadComponent(l, componentPath, por) ==
    IF fullPath(componentPath) \in l.loadedComponents
    THEN l
    ELSE [l EXCEPT !.head = Append(@, [src |-> fullPath(componentPath),
                                       por |-> por, estado |-> "cargando"])]

\* The end of loadAllComponents without the finally block.
terminar_sinFinally(l, lanza) ==
    [l EXCEPT !.inits = @ + 1,
              !.mainPage = IF lanza THEN "error" ELSE "ok",
              !.isLoading = lanza,
              !.carga = SinCarga]

\* The end of loadAllComponents: initializeApplication(), which may throw
\* into the catch, and the finally block.
terminar(l, lanza) ==
    [l EXCEPT !.inits = @ + 1,
              !.mainPage = IF lanza THEN "error" ELSE "ok",
              !.isLoading = FALSE,
              !.carga = SinCarga]

\* The loop without its await: every script is requested at once.
RECURSIVE avanzar_sinEsperar(_, _, _)
avanzar_sinEsperar(l, k, lanza) ==
    IF k > Len(loadOrder)
    THEN terminar(l, lanza)
    ELSE avanzar_sinEsperar(loadComponent(l, loadOrder[k], l.cargas), k + 1,
                            lanza)

RECURSIVE avanzar(_, _, _)
\* The for loop of loadAllComponents from loadOrder[k] on, as far as it
\* gets without waiting for an event.
avanzar(l, k, lanza) ==
    IF k > Len(loadOrder)
    THEN terminar(l, lanza)
    ELSE LET m == loadComponent(l, loadOrder[k], l.cargas)
         IN  IF m = l
             THEN avanzar(l, k + 1, lanza)
             ELSE [m EXCEPT !.carga = [pc |-> "await", k |-> k,
                                       script |-> Len(m.head)]]

LoaderFrame ==
    UNCHANGED <<impl, globalsDefined, localStorage, almacen, cuota, repo, now,
                last, ui, enCurso, archivo, debounced>>

\* loadAllComponents(): returns at once while a load is under way.
loadAllComponents(lanza) ==
    /\ IF loader.isLoading
       THEN loader' = [loader EXCEPT !.ultimo = [op |-> "loadAllComponents",
                                                 arg |-> "",
                                                 result |-> "returned"]]
       ELSE /\ loader.cargas < MaxCargas
            /\ loader' = [avanzar([loader EXCEPT !.isLoading = TRUE,
                                                 !.cargas = @ + 1], 1, lanza)
                            EXCEPT !.ultimo = [op |-> "loadAllComponents",
                                               arg |-> "",
                                               result |-> "started"]]
    /\ LoaderFrame

\* loadComponentOnDemand(componentName)
loadComponentOnDemand(componentName) ==
    /\ loader.demandas < MaxDemandas
    /\ LET componentPath == componentMap(componentName)
           l == [loader EXCEPT !.demandas = @ + 1]
           m == loadComponent(l, componentPath, 0)
       IN  IF componentPath = SinPath
           THEN loader' = [l EXCEPT !.ultimo = [op |-> "loadComponentOnDemand",
                                                arg |-> componentName,
                                                result |-> "null"]]
           ELSE IF m = l
           THEN loader' = [l EXCEPT !.ultimo = [op |-> "loadComponentOnDemand",
                                                arg |-> componentName,
                                                result |-> "returned"]]
           ELSE loader' = [m EXCEPT !.esperas = @ \cup {Len(m.head)},
                                    !.ultimo = [op |-> "loadComponentOnDemand",
                                                arg |-> componentName,
                                                result |-> "await"]]
    /\ LoaderFrame

\* The error event with reject() in place of resolve(): the run lands in
\* the catch of loadAllComponents and ends.
scriptEvent_rechaza(i, cargado, lanza) ==
    /\ i \in DOMAIN loader.head
    /\ loader.head[i].estado = "cargando"
    /\ LET l == [loader EXCEPT
                    !.head[i].estado = IF cargado THEN "onload" ELSE "onerror",
                    !.loadedComponents =
                        IF cargado THEN @ \cup {loader.head[i].src} ELSE @,
                    !.esperas = @ \ {i},
                    !.ultimo = [op |-> IF cargado THEN "onload" ELSE "onerror",
                                arg |-> loader.head[i].src[2],
                                result |-> ""]]
       IN  loader' = IF loader.carga.pc = "await" /\ loader.carga.script = i
                     THEN IF cargado
                          THEN avanzar(l, loader.carga.k + 1, lanza)
                          ELSE [l EXCEPT !.isLoading = FALSE,
                                         !.carga = SinCarga]
                     ELSE l
    /\ LoaderFrame

\* The load or error event of the script element head[i]: onload records
\* the path, both resolve the promise, and the call that awaited it goes
\* on.
scriptEvent(i, cargado, lanza) ==
    /\ i \in DOMAIN loader.head
    /\ loader.head[i].estado = "cargando"
    /\ LET l == [loader EXCEPT
                    !.head[i].estado = IF cargado THEN "onload" ELSE "onerror",
                    !.loadedComponents =
                        IF cargado THEN @ \cup {loader.head[i].src} ELSE @,
                    !.esperas = @ \ {i},
                    !.ultimo = [op |-> IF cargado THEN "onload" ELSE "onerror",
                                arg |-> loader.head[i].src[2],
                                result |-> ""]]
       IN  loader' = IF loader.carga.pc = "await" /\ loader.carga.script = i
                     THEN avanzar(l, loader.carga.k + 1, lanza)
                     ELSE l
    /\ LoaderFrame

LoadAllComponents == \E lanza \in BOOLEAN : loadAllComponents(lanza)
LoadComponentOnDemand ==
    \E componentName \in Nombrables : loadComponentOnDemand(componentName)
ScriptEvent ==
    \E i \in DOMAIN loader.head, cargado \in BOOLEAN, lanza \in BOOLEAN :
        scriptEvent(i, cargado, lanza)

\* No function was wrapped by debounce().
SinDebounce ==
    [ creado |-> FALSE, wait |-> 0, timeout |-> 0, timers |-> {},
      llamadas |-> 0, ultima |-> [args |-> "", t |-> 0],
      invocaciones |-> <<>>, reloj |-> 0 ]

\* What the event handed to the listener can be.
Args == {"e1", "e2"}

DebounceFrame ==
    UNCHANGED <<impl, globalsDefined, localStorage, almacen, cuota, repo, now,
                last, ui, enCurso, archivo, loader>>

\* clearTimeout(id): an identifier that is undefined or not pending does
\* nothing.
clearTimeout(timers, id) == {tm \in timers : tm.id # id}

\* debounce(func, wait): the wrapper is made, its timeout undefined.
debounce(wait) ==
    /\ ~debounced.creado
    /\ debounced' = [debounced EXCEPT !.creado = TRUE, !.wait = wait]
    /\ DebounceFrame

\* The wrapper without its clearTimeout(timeout): the timer of the call
\* before stays pending.
executedFunction_sinClear(args) ==
    /\ debounced.creado
    /\ debounced.llamadas < MaxLlamadas
    /\ LET id == debounced.llamadas + 1
       IN  debounced' = [debounced EXCEPT
               !.timers = @ \cup {[id |-> id, args |-> args,
                                   vence |-> debounced.reloj + debounced.wait]},
               !.timeout = id,
               !.llamadas = id,
               !.ultima = [args |-> args, t |-> debounced.reloj]]
    /\ DebounceFrame

\* executedFunction(...args): clearTimeout(timeout), then
\* timeout = setTimeout(later, wait), later holding the args of this call.
executedFunction(args) ==
    /\ debounced.creado
    /\ debounced.llamadas < MaxLlamadas
    /\ LET id == debounced.llamadas + 1
       IN  debounced' = [debounced EXCEPT
               !.timers = clearTimeout(@, debounced.timeout) \cup
                              {[id |-> id, args |-> args,
                                vence |-> debounced.reloj + debounced.wait]},
               !.timeout = id,
               !.llamadas = id,
               !.ultima = [args |-> args, t |-> debounced.reloj]]
    /\ DebounceFrame

\* later(): a timer that is due runs, at its time or after it:
\* clearTimeout(timeout), then func(...args).
later(tm) ==
    /\ tm \in debounced.timers
    /\ tm.vence <= debounced.reloj
    /\ debounced' = [debounced EXCEPT
           !.timers = clearTimeout(@ \ {tm}, debounced.timeout),
           !.invocaciones = Append(@, [args |-> tm.args, n |-> tm.id,
                                       t |-> debounced.reloj])]
    /\ DebounceFrame

\* A millisecond goes by.
pasaTiempo ==
    /\ debounced.reloj < MaxReloj
    /\ debounced' = [debounced EXCEPT !.reloj = @ + 1]
    /\ DebounceFrame

Debounce == \E wait \in 0..MaxEspera : debounce(wait)
ExecutedFunction == \E args \in Args : executedFunction(args)
Later == \E tm \in debounced.timers : later(tm)


\* What the last handler of the user interface did: its name, the parity
\* of the event it served, the answer to its confirm() prompt, the mutating
\* repository calls it issued, the notifications it showed, the controls it
\* marked invalid with the text of their error element, whether it reset
\* the form, whether it rendered the list and from which records, what it
\* did to the table of the framework-free page, and whether an exception
\* left it.  Here no handler has run.
SinUI ==
    [ manejador |-> "ninguno", evento |-> 0, confirm |-> "none",
      llamadas |-> <<>>, toasts |-> <<>>, invalidos |-> {}, reset |-> FALSE,
      render |-> FALSE, lista |-> <<>>, tabla |-> "igual",
      propagado |-> FALSE ]

\* No add of another tab is under way.
Ocioso == [pc |-> "idle", contacts |-> <<>>, contacto |-> NoArg, result |-> ""]

\* Nothing was exported.
SinArchivo == [hay |-> FALSE, json |-> <<>>, origen |-> <<>>]

\* The page has loaded: initializeStorage() wrote "[]" under the key.
InitComun ==
    /\ localStorage = <<>>
    /\ almacen = "ok"
    /\ cuota = MaxContacts
    /\ repo = <<>>
    /\ now = 0
    /\ last = Outcome("constructor", NoArg, "ok", <<>>)
    /\ ui = SinUI
    /\ enCurso = Ocioso
    /\ archivo = SinArchivo
    /\ loader = loaderInicial
    /\ debounced = SinDebounce

InitCF ==
    /\ impl = "ContactRepository"
    /\ globalsDefined = FALSE
    /\ InitComun

\* The Contacto instances a caller of the repository may hold: built from
\* form data when the page loaded, with any identifier.
\* Called outside the handlers of the user interface, they show nothing.
Add == \E d \in Datos, id \in Ids :
           add(Contacto(d, id, 0, 0)) /\ UNCHANGED ui
Update == \E d \in Datos, id \in Ids :
              update(Contacto(d, id, 0, 0)) /\ UNCHANGED ui
\* The same with the two acceptable forms only.
AddValido == \E d \in DatosValidos, id \in Ids :
                 add(Contacto(d, id, 0, 0)) /\ UNCHANGED ui
UpdateValido == \E d \in DatosValidos, id \in Ids :
                    update(Contacto(d, id, 0, 0)) /\ UNCHANGED ui
Remove == \E id \in Ids : remove(id) /\ UNCHANGED ui
Clear == clear /\ UNCHANGED ui
GetAll == getAllCall /\ UNCHANGED ui
ImportFromJSON ==
    \/ \E data \in ImportArrays : importFromJSON(data, TRUE) /\ UNCHANGED ui
    \/ importFromJSON(<<>>, FALSE) /\ UNCHANGED ui
ExportToJSON == exportToJSONCall /\ UNCHANGED ui
TabLeer == \E d \in DatosValidos, id \in Ids : tabLeer(Contacto(d, id, 0, 0))
TabEscribir == tabEscribir
\* The exported file is handed back to importFromJSON.
ImportArchivo ==
    /\ archivo.hay
    /\ importFromJSON(archivo.json, TRUE)
    /\ UNCHANGED ui

\* A form submitted with both Date readings of the constructor falling in
\* the same instant.
GuardarContacto == \E d \in Datos, gid \in Ids :
                       guardarContacto(d, gid, now) /\ UNCHANGED ui

\* The repository on its own, the clock standing still.
NextCF ==
    \/ Add
    \/ Update
    \/ Remove
    \/ Clear
    \/ GetAll
    \/ ImportFromJSON

SpecCF == InitCF /\ [][NextCF]_vars

\* Updates of acceptable records as time passes.
NextUpdate ==
    \/ AddValido
    \/ UpdateValido
    \/ Remove
    \/ Tick

SpecUpdate == InitCF /\ [][NextUpdate]_vars

\* Export of the collections that add, update and remove build, and import
\* of the exported file.
NextExport ==
    \/ AddValido
    \/ UpdateValido
    \/ Remove
    \/ Clear
    \/ ExportToJSON
    \/ ImportArchivo

SpecExport == InitCF /\ [][NextExport]_vars

\* The writing operations with a storage that fills up.
NextCuota ==
    \/ AddValido
    \/ UpdateValido
    \/ Remove
    \/ ImportFromJSON
    \/ Llenar

SpecCuota == InitCF /\ [][NextCuota]_vars

\* Reading a key that other tabs write and that gets corrupted.
NextBlob ==
    \/ GetAll
    \/ TabLeer
    \/ TabEscribir
    \/ Corromper

SpecBlob == InitCF /\ [][NextBlob]_vars

\* Two tabs adding acceptable records.
NextPestanas ==
    \/ AddValido
    \/ Remove
    \/ TabLeer
    \/ TabEscribir

SpecPestanas == InitCF /\ [][NextPestanas]_vars

\* The insert path of the facade next to the repository's own add.
NextFacade ==
    \/ GuardarContacto
    \/ Add
    \/ Remove
    \/ Clear

SpecFacade == InitCF /\ [][NextFacade]_vars

\* A form submitted while the clock runs: the two Date readings of the
\* constructor may fall in different milliseconds.
GuardarContactoReloj ==
    \E d \in DatosValidos, gid \in Ids, t2 \in {now, now + 1} :
        guardarContacto(d, gid, t2) /\ UNCHANGED ui

\* Saving, updating and removing while time passes.
NextReloj ==
    \/ GuardarContactoReloj
    \/ UpdateValido
    \/ Remove
    \/ Tick

SpecReloj == InitCF /\ [][NextReloj]_vars

(***************************************************************************)
(* ContactoRepository (framework-free version), three variants:            *)
(*   "part_000"              localStorage, update and remove test `> 0`    *)
(*   "part_001"              localStorage, remove tests `!== -1`           *)
(*   "contactoRepository.js" in-memory array                               *)
(* An identifier is a number (Date.now()) or a string (a data-id           *)
(* attribute).  The bodies of part_000 and contactoRepository.js assign to *)
(* the undeclared names `indice` and `i`; class bodies are strict code, so *)
(* the assignment throws a ReferenceError unless the page's global object  *)
(* already has these properties (globalsDefined).                          *)
(***************************************************************************)
SfImpls == {"part_000", "part_001", "contactoRepository.js"}
SfStored == {"part_000", "part_001"}

SfIds == [kind : {"number", "string"}, v : Ids]

\* String(id)
String(id) == [kind |-> "string", v |-> id.v]

SfContactos(t) == [id : SfIds, nombre : {"v1", "v2"}, fechaCreacion : {t}]

ReferenceError == "ReferenceError: indice is not defined"
TypeError == "TypeError: this.repo.clear is not a function"

\* cargarAlmacenamiento() left out: this.repo as the last call left it.
cargarAlmacenamiento_sinRecargar == repo

\* cargarAlmacenamiento(): the array this.repo holds afterwards (the
\* in-memory variant has no such step and keeps its array).
cargarAlmacenamiento == IF impl \in SfStored THEN localStorage ELSE repo

\* The comparison of indiceElemento.
mismoId(a, b) == IF impl = "part_001" THEN String(a) = String(b) ELSE a = b

\* indiceElemento(id): JavaScript index of the first match, or -1.
indiceElemento(arr, id) ==
    IF \E i \in DOMAIN arr : mismoId(arr[i].id, id)
    THEN (CHOOSE i \in DOMAIN arr :
              /\ mismoId(arr[i].id, id)
              /\ \A j \in 1..(i - 1) : ~mismoId(arr[j].id, id)) - 1
    ELSE -1

\* this.repo after the operation is written back by guardarAlmacenamiento()
\* in the localStorage variants.
Guardar(arr) ==
    /\ repo' = arr
    /\ localStorage' = IF impl \in SfStored THEN arr ELSE localStorage
    /\ almacen' = IF impl \in SfStored THEN "ok" ELSE almacen

SinCambio ==
    /\ repo' = cargarAlmacenamiento
    /\ UNCHANGED <<localStorage, almacen>>

Lanza == impl # "part_001" /\ ~globalsDefined

sfAdd(contacto) ==
    /\ impl \in SfImpls
    /\ Len(cargarAlmacenamiento) < MaxSfContacts
    /\ Guardar(Append(cargarAlmacenamiento, contacto))
    /\ last' = Outcome("add", contacto, "undefined", <<>>)
    /\ UNCHANGED <<impl, globalsDefined, cuota, now, enCurso, archivo,
                   loader, debounced>>

\* add(contacto) run by the ContactoRepository of another tab, which has a
\* this.repo of its own.
sfAddOtra(contacto) ==
    /\ impl = "part_001"
    /\ Len(localStorage) < MaxSfContacts
    /\ localStorage' = Append(localStorage, contacto)
    /\ almacen' = "ok"
    /\ UNCHANGED <<impl, globalsDefined, cuota, repo, now, last, ui, enCurso,
                   archivo, loader, debounced>>

sfUpdate(contacto) ==
    /\ impl \in SfImpls
    /\ LET arr == cargarAlmacenamiento
           indice == indiceElemento(arr, contacto.id)
       IN  IF Lanza
           THEN /\ SinCambio
                /\ last' = Outcome("update", contacto, ReferenceError, <<>>)
           ELSE IF indice > 0
           THEN /\ Guardar([arr EXCEPT ![indice + 1] =
                       IF impl \in SfStored
                       THEN [contacto EXCEPT !.fechaCreacion = arr[indice + 1].fechaCreacion]
                       ELSE contacto])
                /\ last' = Outcome("update", contacto,
                                   IF impl \in SfStored THEN "true" ELSE "undefined", <<>>)
           ELSE /\ SinCambio
                /\ last' = Outcome("update", contacto,
                                   IF impl \in SfStored THEN "false" ELSE "undefined", <<>>)
    /\ UNCHANGED <<impl, globalsDefined, cuota, now, enCurso, archivo,
                   loader, debounced>>

\* remove without the test of the index: splice(-1, 1) drops the last
\* element.
sfRemove001_sinPrueba(id) ==
    LET arr == cargarAlmacenamiento
        indiceEliminar == indiceElemento(arr, id)
    IN  /\ Guardar(RemoveAt(arr, IF indiceEliminar # -1
                                 THEN indiceEliminar + 1 ELSE Len(arr)))
        /\ last' = Outcome("remove", [id |-> id], "true", <<>>)

\* part_001: splice at the found index.
sfRemove001(id) ==
    LET arr == cargarAlmacenamiento
        indiceEliminar == indiceElemento(arr, id)
    IN  IF indiceEliminar # -1
        THEN /\ Guardar(RemoveAt(arr, indiceEliminar + 1))
             /\ last' = Outcome("remove", [id |-> id], "true", <<>>)
        ELSE /\ SinCambio
             /\ last' = Outcome("remove", [id |-> id], "false", <<>>)

\* part_000 and contactoRepository.js: indice = (indiceElemento(id) > 0) is
\* a boolean, and splice(true, 1) removes the element at index 1.
sfRemove000(id) ==
    LET arr == cargarAlmacenamiento
        indice == indiceElemento(arr, id) > 0
    IN  IF Lanza
        THEN /\ SinCambio
             /\ last' = Outcome("remove", [id |-> id], ReferenceError, <<>>)
        ELSE IF indice
        THEN /\ Guardar(RemoveAt(arr, 2))
             /\ last' = Outcome("remove", [id |-> id],
                                IF impl \in SfStored THEN "true" ELSE "undefined", <<>>)
        ELSE /\ SinCambio
             /\ last' = Outcome("remove", [id |-> id],
                                IF impl \in SfStored THEN "false" ELSE "undefined", <<>>)

sfRemove(id) ==
    /\ impl \in SfImpls
    /\ IF impl = "part_001" THEN sfRemove001(id) ELSE sfRemove000(id)
    /\ UNCHANGED <<impl, globalsDefined, cuota, now, enCurso, archivo,
                   loader, debounced>>

sfClear ==
    /\ impl \in SfImpls
    /\ IF impl \in SfStored
       THEN /\ Guardar(<<>>)
            /\ last' = Outcome("clear", NoArg, "undefined", <<>>)
       ELSE /\ UNCHANGED <<repo, localStorage, almacen>>
            /\ last' = Outcome("clear", NoArg, TypeError, <<>>)
    /\ UNCHANGED <<impl, globalsDefined, cuota, now, enCurso, archivo,
                   loader, debounced>>

sfGetAll ==
    /\ impl \in SfImpls
    /\ SinCambio
    /\ last' = Outcome("getAll", NoArg, "returned", cargarAlmacenamiento)
    /\ UNCHANGED <<impl, globalsDefined, cuota, now, enCurso, archivo,
                   loader, debounced>>

SfAdd == \E c \in SfContactos(now) : sfAdd(c) /\ UNCHANGED ui
SfUpdate == \E c \in SfContactos(now) : sfUpdate(c) /\ UNCHANGED ui
SfRemove == \E id \in SfIds : sfRemove(id) /\ UNCHANGED ui
SfClear == sfClear /\ UNCHANGED ui
SfGetAll == sfGetAll /\ UNCHANGED ui
SfAddOtra == \E c \in SfContactos(now) :
                 c.nombre = "v1" /\ c.id.kind = "number" /\ sfAddOtra(c)

InitSF ==
    /\ impl \in SfImpls
    /\ globalsDefined \in BOOLEAN
    /\ impl = "part_001" => ~globalsDefined
    /\ InitComun

NextSF ==
    \/ SfAdd
    \/ SfUpdate
    \/ SfRemove
    \/ SfClear
    \/ SfGetAll

SpecSF == InitSF /\ [][NextSF]_vars

(***************************************************************************)
(* The operations every repository offers, over all implementations.       *)
(***************************************************************************)
Init == InitCF \/ InitSF

Next ==
    \/ Add
    \/ Remove
    \/ Clear
    \/ GetAll
    \/ SfAdd
    \/ SfUpdate
    \/ SfRemove
    \/ SfClear
    \/ SfGetAll

Spec == Init /\ [][Next]_vars

\* Adding and removing, in the repository of the component version and in
\* the ContactoRepository of part_001.
InitRemove == InitCF \/ (InitSF /\ impl = "part_001")

NextRemove ==
    \/ Add
    \/ Remove
    \/ Clear
    \/ SfAdd
    \/ SfRemove
    \/ SfClear

SpecRemove == InitRemove /\ [][NextRemove]_vars

\* Records built now, as actualizarContacto and a caller of update build
\* them, put in place of records stored earlier.
UpdateNuevo == \E d \in DatosValidos, id \in Ids :
                   update(Contacto(d, id, now, now)) /\ UNCHANGED ui
SfAddNumero == \E c \in SfContactos(now) :
                   c.id.kind = "number" /\ sfAdd(c) /\ UNCHANGED ui
SfUpdateNumero == \E c \in SfContactos(now) :
                      c.id.kind = "number" /\ sfUpdate(c) /\ UNCHANGED ui

NextCreacion ==
    \/ AddValido
    \/ UpdateNuevo
    \/ SfAddNumero
    \/ SfUpdateNumero
    \/ Tick

SpecCreacion == InitRemove /\ [][NextCreacion]_vars

\* Reading while other tabs write and other pages remove the key.
NextLectura ==
    \/ GetAll
    \/ TabLeer
    \/ TabEscribir
    \/ SfGetAll
    \/ SfAddOtra
    \/ Quitar

SpecLectura == InitRemove /\ [][NextLectura]_vars

(***************************************************************************)
(* The handlers of the user interface.  ContactFacade (component version)  *)
(* wraps the ContactRepository; the page script of the framework-free      *)
(* version (part_002) calls fachadaCon, which forwards to the              *)
(* ContactoRepository of part_001.                                         *)
(***************************************************************************)
\* A handler starts on a new event with nothing shown yet.
Vista(m) == [SinUI EXCEPT !.manejador = m, !.evento = 1 - ui.evento]

\* The repository call ended in a throw.
Lanzo(o) == o.result \notin {"true", "false", "undefined", "returned"}

\* A catch block that logs and throws again, as guardarContacto's does.
catch_relanza(v) ==
    [v EXCEPT !.toasts = Append(v.toasts, "error"), !.propagado = TRUE]

\* The catch block of a facade entry point: console.error and showError.
catch(v) == [v EXCEPT !.toasts = Append(v.toasts, "error")]

\* getStorageInfo().shouldConsiderIndexedDB: the blob is above 70% of the
\* estimated limit, which is MaxContacts records here.
shouldConsiderIndexedDB(blob) == Len(blob) * 10 > 7 * MaxContacts

\* updateStorageStats(): a warning toast when the limit is near; its own
\* try/catch keeps everything else inside.
updateStorageStats(v, blob) ==
    IF shouldConsiderIndexedDB(blob)
    THEN [v EXCEPT !.toasts = Append(v.toasts, "warning")]
    ELSE v

\* renderContactList(contacts)
renderContactList(v, contacts) ==
    [v EXCEPT !.render = TRUE, !.lista = contacts]

\* listarContactos() inside another handler: getAll() and the rendering of
\* what it returned.
listar(v, blob, t) == renderContactList(v, getAll(blob, t))

listarContactos ==
    /\ getAllCall
    /\ ui' = LET v == Vista("listarContactos")
             IN  IF Lanzo(last')
                 THEN catch(v)
                 ELSE renderContactList(v, last'.ret)

\* eliminarContacto(id) with confirm() answered at once.
eliminarContacto_sinConfirmar(id, confirma) ==
    /\ remove(id)
    /\ ui' = LET v == [Vista("eliminarContacto") EXCEPT
                          !.confirm = IF confirma THEN "yes" ELSE "no",
                          !.llamadas = <<"remove">>]
             IN  IF Lanzo(last')
                 THEN catch(v)
                 ELSE updateStorageStats(
                          listar([v EXCEPT !.toasts = <<"success">>],
                                 localStorage', now'),
                          localStorage')

eliminarContacto(id, confirma) ==
    /\ impl = "ContactRepository"
    /\ IF ~confirma
       THEN /\ ui' = [Vista("eliminarContacto") EXCEPT !.confirm = "no"]
            /\ UNCHANGED <<impl, globalsDefined, localStorage, almacen, cuota,
                           repo, now, last, enCurso, archivo, loader, debounced>>
       ELSE /\ remove(id)
            /\ ui' = LET v == [Vista("eliminarContacto") EXCEPT
                                  !.confirm = "yes",
                                  !.llamadas = <<"remove">>]
                     IN  IF Lanzo(last')
                         THEN catch(v)
                         ELSE updateStorageStats(
                                  listar([v EXCEPT !.toasts = <<"success">>],
                                         localStorage', now'),
                                  localStorage')

\* borrarTodo(): count() first, which is a getAll(); nothing to delete ends
\* in an info toast before any prompt.
borrarTodo(confirma) ==
    /\ impl = "ContactRepository"
    /\ LET count == Len(getAll(localStorage, now))
       IN  IF count = 0
           THEN /\ sinEscribir(Outcome("count", NoArg, "returned", <<>>))
                /\ ui' = [Vista("borrarTodo") EXCEPT !.toasts = <<"info">>]
                /\ UNCHANGED <<impl, globalsDefined, cuota, repo, now,
                               enCurso, archivo, loader, debounced>>
           ELSE IF ~confirma
           THEN /\ sinEscribir(Outcome("count", NoArg, "returned", <<>>))
                /\ ui' = [Vista("borrarTodo") EXCEPT !.confirm = "no"]
                /\ UNCHANGED <<impl, globalsDefined, cuota, repo, now,
                               enCurso, archivo, loader, debounced>>
           ELSE /\ clear
                /\ ui' = LET v == [Vista("borrarTodo") EXCEPT
                                      !.confirm = "yes",
                                      !.llamadas = <<"clear">>]
                         IN  IF Lanzo(last')
                             THEN catch(v)
                             ELSE updateStorageStats(
                                      listar([v EXCEPT !.toasts = <<"success">>],
                                             localStorage', now'),
                                      localStorage')

\* part_002, eliminarContactoEspecifico(id): confirm(), then
\* fachadaCon.eliminarContacto(id), whose return value is dropped,
\* eliminarFila(id) and the success toast; the catch shows an error toast.
eliminarContactoEspecifico(id, confirma) ==
    /\ impl = "part_001"
    /\ IF ~confirma
       THEN /\ ui' = [Vista("eliminarContactoEspecifico") EXCEPT
                         !.confirm = "no"]
            /\ UNCHANGED <<impl, globalsDefined, localStorage, almacen, cuota,
                           repo, now, last, enCurso, archivo, loader, debounced>>
       ELSE /\ sfRemove(id)
            /\ ui' = LET v == [Vista("eliminarContactoEspecifico") EXCEPT
                                  !.confirm = "yes",
                                  !.llamadas = <<"remove">>]
                     IN  IF Lanzo(last')
                         THEN catch(v)
                         ELSE [v EXCEPT !.tabla = "sinFila",
                                        !.toasts = <<"success">>]

\* part_002, the click on eliminarContactos: confirm(), limpiarTabla(),
\* fachadaCon.borrarTodo() and the success toast, with no try around them.
eliminarContactos(confirma) ==
    /\ impl = "part_001"
    /\ IF ~confirma
       THEN /\ ui' = [Vista("eliminarContactos") EXCEPT !.confirm = "no"]
            /\ UNCHANGED <<impl, globalsDefined, localStorage, almacen, cuota,
                           repo, now, last, enCurso, archivo, loader, debounced>>
       ELSE /\ sfClear
            /\ ui' = LET v == [Vista("eliminarContactos") EXCEPT
                                  !.confirm = "yes",
                                  !.llamadas = <<"clear">>,
                                  !.tabla = "vacia"]
                     IN  IF Lanzo(last')
                         THEN [v EXCEPT !.propagado = TRUE]
                         ELSE [v EXCEPT !.toasts = <<"success">>]

ListarContactos == listarContactos
EliminarContacto == \E id \in Ids, confirma \in BOOLEAN :
                        eliminarContacto(id, confirma)
BorrarTodo == \E confirma \in BOOLEAN : borrarTodo(confirma)
\* The identifier comes from the data-id attribute of the clicked button.
EliminarContactoEspecifico ==
    \E id \in SfIds, confirma \in BOOLEAN :
        id.kind = "string" /\ eliminarContactoEspecifico(id, confirma)
EliminarContactos == \E confirma \in BOOLEAN : eliminarContactos(confirma)

\* The delete actions of both pages; records arrive through add.
NextBorrar ==
    \/ AddValido
    \/ EliminarContacto
    \/ BorrarTodo
    \/ SfAdd
    \/ EliminarContactoEspecifico
    \/ EliminarContactos

SpecBorrar == InitRemove /\ [][NextBorrar]_vars

\* getFormData() over what the user typed: the value of the type=email
\* input comes without leading and trailing whitespace.
getFormData(campos) == [campos EXCEPT !.email = trim(campos.email)]

\* What getFormData() reads from the contact form: the radio group always
\* yields the value of one of its three options.
FormDatos ==
    {getFormData(d) : d \in {c \in Datos :
                                c.preferenciaContacto \in preferencasValidas}}

\* The ids of the elements Form.createContactForm() builds: the controls,
\* the radio options and the submit button, and the error elements.
FormElementIds ==
    {"contacto_Form", "name", "email", "phone", "subject", "mensaje", "terms",
     "contactEmail", "contactPhone", "contactWhatsapp", "enviarContacto"}
FormErrorIds ==
    {"errorName", "errorEmail", "errorPhone", "errorSubject", "errorMensaje",
     "errorTerms"}

\* `error${fieldName.charAt(0).toUpperCase() + fieldName.slice(1)}`
ErrorDivId(fieldName) ==
    CASE fieldName = "name" -> "errorName"
      [] fieldName = "email" -> "errorEmail"
      [] fieldName = "phone" -> "errorPhone"
      [] fieldName = "subject" -> "errorSubject"
      [] fieldName = "mensaje" -> "errorMensaje"
      [] fieldName = "terms" -> "errorTerms"
      [] fieldName = "nombre" -> "errorNombre"
      [] fieldName = "telefono" -> "errorTelefono"
      [] fieldName = "asunto" -> "errorAsunto"
      [] fieldName = "preferenciaContacto" -> "errorPreferenciaContacto"

\* showFieldValidation(fieldName, false, errorMessage): getElementById on
\* the field name; without such an element nothing happens, with it the
\* element gets is-invalid and the error element, if there is one, the text.
showFieldValidation(fieldName, errorMessage) ==
    IF fieldName \notin FormElementIds
    THEN {}
    ELSE {[control |-> fieldName,
           message |-> IF ErrorDivId(fieldName) \in FormErrorIds
                       THEN errorMessage ELSE ""]}

\* displayValidationErrors(errors)
displayValidationErrors(errors) ==
    UNION {showFieldValidation(errors[i].field, errors[i].message) :
               i \in DOMAIN errors}

\* The mutating repository call guardarContacto got as far as.
llamadasGuardar(o) ==
    IF o.result \in {ErrFormulario, ErrEmail} THEN <<>> ELSE <<"add">>

\* What guardarContacto shows before it returns or throws.
vistaGuardar(o, blob) ==
    LET v == [Vista("handleFormSubmit") EXCEPT
                 !.llamadas = llamadasGuardar(o),
                 !.invalidos = IF o.result = ErrFormulario
                               THEN displayValidationErrors(validate(o.arg).errors)
                               ELSE {}]
    IN  IF Lanzo(o) THEN v ELSE updateStorageStats(v, blob)

\* handleFormSubmit with showSuccess ahead of the save.
handleFormSubmit_exitoAntes(datosFormulario, gid) ==
    /\ guardarContacto(datosFormulario, gid, now)
    /\ ui' = LET v == vistaGuardar(last', localStorage')
                 w == [v EXCEPT !.toasts = <<"success">> \o v.toasts]
             IN  IF Lanzo(last')
                 THEN catch(w)
                 ELSE listar([w EXCEPT !.reset = TRUE], localStorage', now')

\* handleFormSubmit(event): getFormData(), guardarContacto(), and on its
\* return showSuccess, resetForm and listarContactos; the catch shows the
\* error.
handleFormSubmit(datosFormulario, gid) ==
    /\ guardarContacto(datosFormulario, gid, now)
    /\ ui' = LET v == vistaGuardar(last', localStorage')
             IN  IF Lanzo(last')
                 THEN catch(v)
                 ELSE listar([v EXCEPT !.toasts = Append(v.toasts, "success"),
                                       !.reset = TRUE],
                             localStorage', now')

\* String.prototype.includes
Includes(s, sub) ==
    \E i \in 0..(Len(s) - Len(sub)) : SubSeq(s, i + 1, i + Len(sub)) = sub

\* The filter of buscarContactos.
coincide(contact, searchTerm) ==
    \/ Includes(toLowerCase(contact.nombre), toLowerCase(searchTerm))
    \/ Includes(toLowerCase(contact.email), toLowerCase(searchTerm))
    \/ Includes(toLowerCase(contact.asunto), toLowerCase(searchTerm))

buscarContactos(searchTerm) ==
    /\ getAllCall
    /\ ui' = LET v == Vista("buscarContactos")
                 coincideTermino(contact) == coincide(contact, searchTerm)
             IN  IF Lanzo(last')
                 THEN catch(v)
                 ELSE IF searchTerm = <<>> \/ Len(trim(searchTerm)) = 0
                 THEN renderContactList(v, last'.ret)
                 ELSE renderContactList(v, SelectSeq(last'.ret, coincideTermino))

\* Search terms: none, blank, part of a name in another case, part of an
\* email, and one that matches nothing.
Terminos == {<<>>, <<" ">>, <<"X">>, <<"a", "@">>, <<"z">>}

\* The user agent starts refusing the page access to its storage.
Denegar ==
    /\ impl = "ContactRepository"
    /\ almacen # "denegado"
    /\ almacen' = "denegado"
    /\ localStorage' = <<>>
    /\ UNCHANGED <<impl, globalsDefined, cuota, repo, now, last, ui, enCurso,
                   archivo, loader, debounced>>

HandleFormSubmit == \E d \in FormDatos, gid \in Ids : handleFormSubmit(d, gid)
\* The same with the two acceptable forms and one that validation rejects.
EnviarFormulario ==
    \E d \in DatosValidos \cup {[DefaultDatos EXCEPT !.aceptaTerminos = FALSE]},
       gid \in Ids : handleFormSubmit(d, gid)
BuscarContactos == \E searchTerm \in Terminos : buscarContactos(searchTerm)

\* The contact form in use, the storage failing in every way.
NextFormulario ==
    \/ HandleFormSubmit
    \/ BorrarTodo
    \/ Corromper
    \/ Llenar
    \/ Denegar

SpecFormulario == InitCF /\ [][NextFormulario]_vars

\* Submissions, single deletions and clear-all through one facade.
NextCorreo ==
    \/ HandleFormSubmit
    \/ EliminarContacto
    \/ BorrarTodo

SpecCorreo == InitCF /\ [][NextCorreo]_vars

(***************************************************************************)
(* The page controller of the component version (MainPage.js), which puts  *)
(* a submit listener of its own on the contact form.                       *)
(***************************************************************************)
\* The text controls of the contact form.
CamposTexto == {"nombre", "email", "telefono", "asunto", "mensaje"}

\* The controls that carry the required attribute: the markup decides.
Requeridos == {{}, {"nombre", "email"}, CamposTexto}

\* field.type of a control of the form.
fieldType(field) ==
    IF field = "email" THEN "email"
    ELSE IF field = "telefono" THEN "tel" ELSE "text"

DigitChars == {"0", "1", "2", "3", "4", "5", "6", "7", "8", "9"}

\* value.replace(/\D/g, '')
soloDigitos(value) == SelectSeq(value, LAMBDA c : c \in DigitChars)

\* MainPage.validateField(field): the value it returns.
validateField(field, valor, required) ==
    LET value == trim(valor)
    IN  /\ ~(required /\ value = <<>>)
        /\ (value # <<>> /\ fieldType(field) = "email") => emailRegexTest(value)
        /\ (value # <<>> /\ fieldType(field) = "tel") =>
               /\ Len(soloDigitos(value)) >= 7
               /\ Len(soloDigitos(value)) <= 15

\* MainPage.validateForm(form): the [required] fields validateField turns
\* down; the form is valid when there is none.
validateForm(form, requeridos) ==
    {field \in requeridos : ~validateField(field, form[field], TRUE)}

\* contactFacade.agregarContacto(data): ContactFacade has no such method,
\* so the call is a TypeError and nothing is read or written.
agregarContacto(data) ==
    /\ last' = [op |-> "agregarContacto", arg |-> data,
                result |-> "TypeError", ret |-> <<>>]
    /\ UNCHANGED <<impl, globalsDefined, localStorage, almacen, cuota, repo,
                   now, enCurso, archivo, loader, debounced>>

\* MainPage.handleFormSubmission(form): on a valid form the success
\* message, form.reset(), then the call of the facade, whose TypeError
\* leaves the listener.
handleFormSubmission(form, requeridos) ==
    /\ impl = "ContactRepository"
    /\ LET malos == validateForm(form, requeridos)
       IN  IF malos = {}
           THEN /\ agregarContacto(form)
                /\ ui' = [Vista("handleFormSubmission") EXCEPT
                             !.toasts = <<"success">>,
                             !.reset = TRUE,
                             !.llamadas = <<"agregarContacto">>,
                             !.propagado = TRUE]
           ELSE /\ ui' = [Vista("handleFormSubmission") EXCEPT
                             !.invalidos = malos]
                /\ UNCHANGED <<impl, globalsDefined, localStorage, almacen,
                               cuota, repo, now, last, enCurso, archivo,
                               loader, debounced>>

HandleFormSubmission ==
    \E form \in FormDatos, requeridos \in Requeridos :
        handleFormSubmission(form, requeridos)

\* The contact form with both of its submit listeners.
NextPagina ==
    \/ HandleFormSubmit
    \/ HandleFormSubmission
    \/ BorrarTodo

SpecPagina == InitCF /\ [][NextPagina]_vars

\* Every entry point of the facade in use, the storage failing in every
\* way.
NextUI ==
    \/ EnviarFormulario
    \/ ListarContactos
    \/ EliminarContacto
    \/ BorrarTodo
    \/ BuscarContactos
    \/ Corromper
    \/ Llenar
    \/ Denegar

SpecUI == InitCF /\ [][NextUI]_vars

(***************************************************************************)
(* The submit listener of the framework-free page (part_002) and            *)
(* fachadaContacto.guardarContacto (part_001).  A field value is the empty *)
(* string or some text; of the record that is stored the model keeps the   *)
(* identifier (Date.now()), the name and the creation date.                *)
(***************************************************************************)
SfForms ==
    [ nombre : {"", "v1", "v2"}, correo : {"", "c"}, telefono : {"", "t"},
      motivo : {"", "m"}, mensaje : {"", "s"}, aceptaTerminos : BOOLEAN ]

\* The first test of the listener: !nombre || !correo || !telefono ||
\* !asunto || !mensaje.
camposVacios(f) ==
    \/ f.nombre = ""
    \/ f.correo = ""
    \/ f.telefono = ""
    \/ f.motivo = ""
    \/ f.mensaje = ""

\* fachadaContacto.guardarContacto(datosFormulario): the record it builds.
sfNuevoContacto(f, gid, t) ==
    [id |-> [kind |-> "number", v |-> gid], nombre |-> f.nombre,
     fechaCreacion |-> t]

sfSubmit(f, gid) ==
    /\ impl = "part_001"
    /\ IF camposVacios(f) \/ ~f.aceptaTerminos
       THEN /\ ui' = [Vista("submit") EXCEPT !.toasts = <<"error">>]
            /\ UNCHANGED <<impl, globalsDefined, localStorage, almacen, cuota,
                           repo, now, last, enCurso, archivo, loader, debounced>>
       ELSE /\ sfAdd(sfNuevoContacto(f, gid, now))
            /\ ui' = LET v == [Vista("submit") EXCEPT !.llamadas = <<"add">>]
                     IN  IF Lanzo(last')
                         THEN catch(v)
                         ELSE [v EXCEPT !.toasts = <<"success">>,
                                        !.reset = TRUE]

SfSubmit == \E f \in SfForms, gid \in Ids : sfSubmit(f, gid)

\* The framework-free page in use: its form and its delete buttons.
NextSfPagina ==
    \/ SfSubmit
    \/ EliminarContactoEspecifico
    \/ EliminarContactos

\* The page loaded with the storage as an earlier visit left it.
InitSfPagina == InitSF /\ impl = "part_001"

SpecSfPagina == InitSfPagina /\ [][NextSfPagina]_vars

\* The loader started by the page and called again while it works.
NextLoader ==
    \/ LoadAllComponents
    \/ LoadComponentOnDemand
    \/ ScriptEvent

SpecLoader == InitCF /\ [][NextLoader]_vars

\* A debounced listener, its events and its timer.
NextDebounce ==
    \/ Debounce
    \/ ExecutedFunction
    \/ Later
    \/ pasaTiempo

SpecDebounce == InitCF /\ [][NextDebounce]_vars

\* loadAllComponents on its own.
NextCargaTodo ==
    \/ LoadAllComponents
    \/ ScriptEvent

SpecCargaTodo == InitCF /\ [][NextCargaTodo]_vars

(***************************************************************************)
(* Properties.                                                             *)
(***************************************************************************)
Errors ==
    {ErrInvalido, ErrMismoId, ErrNoEncontrado, ErrEmail, ErrFormulario,
     ErrNoArray, ReferenceError, TypeError}

\* The step is a call of op: it left its outcome in `last`.
OpStep(op) == last' # last /\ last'.op = op

IsCF == impl = "ContactRepository"

StoredIds(blob) == {blob[i].id : i \in DOMAIN blob}

\* The rules of section 3 on a record, stated on its trimmed values.
Reglas(r) ==
    /\ Len(trim(r.nombre)) >= 2
    /\ Len(trim(r.nombre)) <= 100
    /\ emailRegexTest(trim(r.email))
    /\ trim(r.telefono) # <<>> => phoneRegexTest(trim(r.telefono))
    /\ trim(r.asunto) # <<>>
    /\ Len(trim(r.mensaje)) <= 1000
    /\ r.aceptaTerminos = TRUE
    /\ r.preferenciaContacto \in {"Email", "Telefono", "WhatsApp"}

\* C1: a valid candidate whose identifier is not stored is added, and
\* getAll() then holds exactly one record with its identifier, the email
\* trimmed and lower-cased, the name, phone and message trimmed.
C1_AddThenGetAll ==
    [][ ( /\ OpStep("add") /\ IsCF
          /\ validate(last'.arg).isValid
          /\ last'.arg.id \notin StoredIds(localStorage) )
        => LET c == last'.arg
               got == getAll(localStorage', now')
               same == {i \in DOMAIN got : got[i].id = c.id}
           IN  /\ last'.result = "true"
               /\ Cardinality(same) = 1
               /\ \A i \in same :
                    /\ got[i].email = toLowerCase(trim(c.email))
                    /\ got[i].nombre = trim(c.nombre)
                    /\ got[i].telefono = trim(c.telefono)
                    /\ got[i].mensaje = trim(c.mensaje) ]_vars

\* An add of the padded, upper-case form succeeded and the stored record
\* carries the normalised values.
C1_Witness ==
    /\ IsCF /\ last.op = "add" /\ last.result = "true"
    /\ last.arg.email = <<"A", "@", "b", ".", "c">>
    /\ last.arg.nombre = <<" ", "A", "b", " ">>
    /\ \E i \in DOMAIN localStorage :
         /\ localStorage[i].id = last.arg.id
         /\ localStorage[i].email = <<"a", "@", "b", ".", "c">>
         /\ localStorage[i].nombre = <<"A", "b">>

Falta(s) == trim(s) = <<>>

\* C2: add of a record without name, email or subject, or with
\* aceptaTerminos false, raises an error and leaves the blob as it was.
C2_AddRejectsIncomplete ==
    [][ ( /\ OpStep("add") /\ IsCF
          /\ \/ Falta(last'.arg.nombre)
             \/ Falta(last'.arg.email)
             \/ Falta(last'.arg.asunto)
             \/ last'.arg.aceptaTerminos = FALSE )
        => /\ last'.result \in Errors
           /\ localStorage' = localStorage ]_vars

\* A record whose only defect is the unaccepted terms was rejected while
\* the store held a record.
C2_Witness ==
    /\ IsCF /\ last.op = "add" /\ last.result = ErrInvalido
    /\ last.arg.aceptaTerminos = FALSE
    /\ ~Falta(last.arg.nombre) /\ ~Falta(last.arg.email) /\ ~Falta(last.arg.asunto)
    /\ Len(localStorage) >= 1

EmailStored(blob, email) ==
    \E i \in DOMAIN blob : toLowerCase(blob[i].email) = toLowerCase(email)

\* C3 as stated: ContactRepository.add of a valid record whose email
\* equals, ignoring case, a stored email is rejected without a change.
C3_AddRejectsStoredEmail ==
    [][ ( /\ OpStep("add") /\ IsCF
          /\ validate(last'.arg).isValid
          /\ EmailStored(localStorage, last'.arg.email) )
        => /\ last'.result \in Errors
           /\ localStorage' = localStorage ]_vars

\* C3 amended: it is ContactFacade.guardarContacto that rejects a valid form
\* whose email equals, ignoring case, a stored email, without a change.
C3_GuardarRejectsStoredEmail ==
    [][ ( /\ OpStep("guardarContacto") /\ IsCF
          /\ validate(last'.arg).isValid
          /\ EmailStored(localStorage, last'.arg.email) )
        => /\ last'.result = ErrEmail
           /\ localStorage' = localStorage ]_vars

\* The form with the upper-case email was rejected against the stored
\* lower-case one.
C3_Witness ==
    /\ IsCF /\ last.op = "guardarContacto" /\ last.result = ErrEmail
    /\ last.arg.email = <<"A", "@", "b", ".", "c">>
    /\ \E i \in DOMAIN localStorage : localStorage[i].email = <<"a", "@", "b", ".", "c">>

\* C4: no two records of the stored collection have the same identifier.
C4_UniqueIds ==
    IsCF => \A i, j \in DOMAIN localStorage :
                i # j => localStorage[i].id # localStorage[j].id

\* C5: every stored record satisfies every rule of validation.
C5_StoredRecordsValid ==
    IsCF => \A i \in DOMAIN localStorage : Reglas(getAll(localStorage, now)[i])

\* An import stored one record of a file and refused another.
C5_Witness ==
    /\ IsCF /\ last.op = "importFromJSON" /\ last.result = "returned"
    /\ last.ret[1].imported >= 1 /\ last.ret[1].errors >= 1
    /\ Len(localStorage) >= 1

\* The text of an identifier of the framework-free version: the number
\* 1 and the string "1" name the same record.
IdText(id) == id.v

SfKnown(arr, id) == \E i \in DOMAIN arr : IdText(arr[i].id) = IdText(id)

\* C6: remove(id) of an identifier that names no stored record signals
\* not-found (an error in ContactRepository, false in part_001's
\* ContactoRepository) and leaves the blob as it was.
C6_RemoveUnknown ==
    [][ /\ ( /\ OpStep("remove") /\ IsCF
             /\ last'.arg.id \notin StoredIds(localStorage) )
           => /\ last'.result = ErrNoEncontrado
              /\ localStorage' = localStorage
        /\ ( /\ OpStep("remove") /\ impl = "part_001"
             /\ ~SfKnown(localStorage, last'.arg.id) )
           => /\ last'.result = "false"
              /\ localStorage' = localStorage ]_vars

\* part_001 answered false for an unknown identifier on a non-empty store.
C6_Witness ==
    /\ impl = "part_001" /\ last.op = "remove" /\ last.result = "false"
    /\ Len(localStorage) >= 1
    /\ ~SfKnown(localStorage, last.arg.id)

\* C7: update of a valid record is rejected as not found, without a change,
\* when its identifier is not stored; otherwise one position that held the
\* identifier now holds the record, stamped with the time of the update,
\* and every other position is as before.
C7_UpdateInPlace ==
    [][ ( /\ OpStep("update") /\ IsCF
          /\ validate(last'.arg).isValid )
        => LET c == last'.arg
           IN  IF c.id \notin StoredIds(localStorage)
               THEN /\ last'.result = ErrNoEncontrado
                    /\ localStorage' = localStorage
               ELSE /\ last'.result = "true"
                    /\ Len(localStorage') = Len(localStorage)
                    /\ \E k \in DOMAIN localStorage :
                         /\ localStorage[k].id = c.id
                         /\ \A j \in DOMAIN localStorage \ {k} :
                              localStorage'[j] = localStorage[j]
                         /\ localStorage'[k] =
                              [toJSON(c) EXCEPT !.fechaActualizacion = now] ]_vars

\* The second of two records was replaced at time 1 by a record built at
\* time 0.
C7_Witness ==
    /\ IsCF /\ last.op = "update" /\ last.result = "true"
    /\ now = 1 /\ last.arg.fechaActualizacion = 0
    /\ Len(localStorage) = 2
    /\ localStorage[2].id = last.arg.id
    /\ localStorage[2].fechaActualizacion = 1
    /\ localStorage[1].id # last.arg.id

\* The array a framework-free repository holds.
SfArr == IF impl \in SfStored THEN localStorage ELSE repo

\* C8: in the localStorage variants of ContactoRepository, update of a
\* record whose identifier is stored reports success and replaces the
\* record, whatever its position.
C8_SfUpdateAnyPosition ==
    [][ ( /\ OpStep("update") /\ impl \in SfStored
          /\ last'.arg.id \in StoredIds(localStorage) )
        => /\ last'.result = "true"
           /\ \E k \in DOMAIN localStorage :
                /\ localStorage[k].id = last'.arg.id
                /\ localStorage'[k].nombre = last'.arg.nombre
                /\ localStorage'[k].id = last'.arg.id ]_vars

\* C9: in the variants whose remove tests `indiceElemento(id) > 0`,
\* remove(id) of a stored identifier removes exactly one record holding
\* that identifier and keeps the others in order.
C9_SfRemoveAnyPosition ==
    [][ ( /\ OpStep("remove") /\ impl \in {"part_000", "contactoRepository.js"}
          /\ last'.arg.id \in StoredIds(SfArr) )
        => \E k \in DOMAIN SfArr :
             /\ SfArr[k].id = last'.arg.id
             /\ SfArr' = RemoveAt(SfArr, k) ]_vars

\* C10: in every implementation clear() raises no error and leaves an
\* empty collection, the first time and the second.
C10_ClearIdempotent ==
    last.op = "clear" =>
        /\ last.result \notin Errors
        /\ IF IsCF THEN getAll(localStorage, now) = <<>> ELSE SfArr = <<>>

\* C11: importing, into an empty store, the string that exportToJSON
\* returned for a collection built by add, update and remove stores that
\* collection again, record by record and in the same order, and reports
\* every record as imported and no error.
C11_ExportImportRoundTrip ==
    [][ ( /\ OpStep("importFromJSON") /\ IsCF
          /\ archivo.hay /\ last'.arg = [data |-> archivo.json]
          /\ almacen = "ok" /\ localStorage = <<>> )
        => /\ last'.result = "returned"
           /\ localStorage' = archivo.origen
           /\ last'.ret[1].imported = Len(archivo.origen)
           /\ last'.ret[1].skipped = 0
           /\ last'.ret[1].errors = 0 ]_vars

\* A collection of two records with different emails
\* came back from its exported file into an empty store.
C11_Witness ==
    /\ IsCF /\ last.op = "importFromJSON" /\ last.result = "returned"
    /\ archivo.hay /\ last.arg = [data |-> archivo.json]
    /\ Len(archivo.origen) = 2
    /\ archivo.origen[1].email # archivo.origen[2].email
    /\ last.ret[1].imported = 2
    /\ localStorage = archivo.origen

\* C12: getAll() of the component version and of part_001 returns the
\* records of the blob as it is when the call is made, whoever wrote it,
\* and nothing when the key holds no blob; the call leaves the blob alone.
C12_GetAllReadsTheBlob ==
    [][ ( /\ OpStep("getAll") /\ impl \in {"ContactRepository", "part_001"}
          /\ almacen \in {"ok", "ausente"} )
        => /\ last'.ret = localStorage
           /\ almacen = "ausente" => last'.ret = <<>>
           /\ localStorage' = localStorage
           /\ almacen' = almacen ]_vars

\* The component version returned two records, both written by another
\* tab.
C12_Witness ==
    /\ IsCF /\ last.op = "getAll"
    /\ Len(last.ret) = 2 /\ last.ret = localStorage
    /\ enCurso.pc = "hecho" /\ enCurso.result = "true"

\* C13: when this tab's add of one record succeeds between the read and
\* the write of another tab's add of a record with another identifier, the
\* other tab's add succeeds as well, the blob becomes what the other tab
\* read plus its own record, and the record of this tab is gone.
C13_LastWriterWins ==
    [][ ( /\ IsCF /\ enCurso.pc = "leido" /\ enCurso'.pc = "hecho"
          /\ last.op = "add" /\ last.result = "true"
          /\ last.arg.id # enCurso.contacto.id
          /\ \E i \in DOMAIN localStorage : localStorage[i] = toJSON(last.arg)
          /\ \A i \in DOMAIN enCurso.contacts :
                 enCurso.contacts[i].id # last.arg.id )
        => /\ enCurso'.result = "true"
           /\ last' = last
           /\ localStorage' =
                  saveToStorage(Append(enCurso.contacts, enCurso.contacto))
           /\ \A i \in DOMAIN localStorage' :
                  localStorage'[i].id # last.arg.id ]_vars

\* Both adds answered true and the blob holds the other tab's record only.
C13_Witness ==
    /\ IsCF /\ enCurso.pc = "hecho" /\ enCurso.result = "true"
    /\ last.op = "add" /\ last.result = "true"
    /\ last.arg.id # enCurso.contacto.id
    /\ localStorage = <<toJSON(enCurso.contacto)>>

\* The length of the array that the call in `last'` hands to setItem, or -1
\* when the call ends before it writes.
Escrito ==
    LET c == last'.arg
        n == Len(localStorage)
    IN  CASE last'.op = "add" ->
               IF Reglas(c) /\ c.id \notin StoredIds(localStorage)
               THEN n + 1 ELSE -1
          [] last'.op = "update" ->
               IF Reglas(c) /\ c.id \in StoredIds(localStorage) THEN n ELSE -1
          [] last'.op = "remove" ->
               IF c.id \in StoredIds(localStorage) THEN n - 1 ELSE -1
          [] last'.op = "importFromJSON" ->
               IF last'.result = ErrNoArray THEN -1
               ELSE n + Cardinality({k \in DOMAIN c.data :
                                       /\ Reglas(c.data[k])
                                       /\ c.data[k].id \notin StoredIds(localStorage)})
          [] OTHER -> -1

\* C14: an add, update, remove or importFromJSON whose array does not fit
\* in the storage ends with the insufficient-storage error, and the blob
\* is as it was.
C14_QuotaExceeded ==
    [][ ( /\ last' # last /\ IsCF /\ almacen = "ok"
          /\ last'.op \in {"add", "update", "remove", "importFromJSON"}
          /\ Escrito > cuota )
        => /\ last'.result = ErrCuota
           /\ localStorage' = localStorage ]_vars

\* An import into a store that holds a record met a full storage.
C14_Witness ==
    /\ IsCF /\ last.op = "importFromJSON" /\ last.result = ErrCuota
    /\ Len(localStorage) >= 1
    /\ Len(last.arg.data) >= 1

\* C15: getAll() on a blob that cannot be parsed into an array of records
\* throws nothing, returns an empty collection and leaves an empty array
\* under the key, which later reads return until a record is added.
C15_CorruptBlobReset ==
    [][ ( /\ OpStep("getAll") /\ IsCF
          /\ \/ almacen = "ilegible"
             \/ almacen = "ok" /\ localStorage = <<>> )
        => /\ last'.result = "returned"
           /\ last'.ret = <<>>
           /\ almacen' = "ok"
           /\ localStorage' = <<>> ]_vars

\* The key held a record of another tab, was corrupted, and getAll()
\* returned nothing and left an empty array.
C15_Witness ==
    /\ IsCF /\ last.op = "getAll" /\ last.ret = <<>>
    /\ almacen = "ok" /\ localStorage = <<>>
    /\ enCurso.pc = "hecho" /\ enCurso.result = "true"

\* The step is a run of a handler of the user interface.
HandlerStep(m) == ui'.evento # ui.evento /\ ui'.manejador = m

\* The delete actions of the two pages.
Borrados ==
    {"eliminarContacto", "borrarTodo", "eliminarContactoEspecifico",
     "eliminarContactos"}

(***************************************************************************)
(* C16: a delete action of the user interface issues the repository's      *)
(* remove or clear only when its confirm() prompt was answered yes; when   *)
(* the answer is no, it issues no mutating call and the stored collection  *)
(* is what it was; and the stored collection loses records only in a step  *)
(* of a delete action whose prompt was answered yes.                       *)
(***************************************************************************)
C16_ConfirmBeforeDelete ==
    [][ /\ (ui'.evento # ui.evento /\ ui'.manejador \in Borrados) =>
              /\ ui'.llamadas # <<>> => ui'.confirm = "yes"
              /\ ui'.confirm = "no" =>
                     /\ ui'.llamadas = <<>>
                     /\ localStorage' = localStorage
                     /\ almacen' = almacen
                     /\ repo' = repo
        /\ Len(localStorage') < Len(localStorage) =>
              /\ ui'.evento # ui.evento
              /\ ui'.manejador \in Borrados
              /\ ui'.confirm = "yes" ]_vars

\* The prompt of borrarTodo was declined over a store that holds records.
C16_Witness ==
    /\ ui.manejador = "borrarTodo"
    /\ ui.confirm = "no"
    /\ ui.llamadas = <<>>
    /\ Len(localStorage) >= 1

\* Occurrences of x in the sequence s.
Cuenta(s, x) == Cardinality({i \in DOMAIN s : s[i] = x})

(***************************************************************************)
(* C17: a run of handleFormSubmit ends in exactly one of two ways: the     *)
(* record is appended to the stored collection, one success notification   *)
(* and no failure notification is shown, the form is reset and the list is *)
(* rendered from all the stored records; or nothing is stored, one failure *)
(* notification and no success notification is shown.                      *)
(***************************************************************************)
C17_SubmitOneOutcome ==
    [][ HandlerStep("handleFormSubmit") =>
          \/ /\ localStorage' = Append(localStorage, toJSON(last'.arg))
             /\ Cuenta(ui'.toasts, "success") = 1
             /\ Cuenta(ui'.toasts, "error") = 0
             /\ ui'.reset
             /\ ui'.render
             /\ ui'.lista = getAll(localStorage', now')
          \/ /\ localStorage' = localStorage
             /\ Cuenta(ui'.toasts, "error") = 1
             /\ Cuenta(ui'.toasts, "success") = 0
             /\ ~ui'.reset ]_vars

\* A submission was stored next to an older record and announced.
C17_Witness ==
    /\ ui.manejador = "handleFormSubmit"
    /\ Len(localStorage) = 2
    /\ Len(ui.lista) = 2
    /\ Cuenta(ui.toasts, "success") = 1
    /\ ui.reset

\* The form control whose value getFormData() puts into the field that
\* validate() names.
Control(field) ==
    CASE field = "nombre" -> "name"
      [] field = "email" -> "email"
      [] field = "telefono" -> "phone"
      [] field = "asunto" -> "subject"
      [] field = "mensaje" -> "mensaje"
      [] field = "terms" -> "terms"
      [] field = "preferenciaContacto" -> "contactoOpcion"

(***************************************************************************)
(* C18: when handleFormSubmit finds the form invalid, every failure        *)
(* (field, message) of Contacto.validate() leaves the form control of that *)
(* field marked invalid with the message in its error element.             *)
(***************************************************************************)
C18_FieldMarks ==
    [][ (HandlerStep("handleFormSubmit") /\ last'.result = ErrFormulario) =>
          \A i \in DOMAIN validate(last'.arg).errors :
              LET error == validate(last'.arg).errors[i]
              IN  [control |-> Control(error.field),
                   message |-> error.message] \in ui'.invalidos ]_vars

\* The entry points of ContactFacade.
EntryPoints ==
    {"handleFormSubmit", "listarContactos", "eliminarContacto", "borrarTodo",
     "buscarContactos"}

(***************************************************************************)
(* C19: whatever the repository throws (rejected form, unknown identifier, *)
(* stored email, full storage, refused storage), a run of handleFormSubmit,*)
(* listarContactos, eliminarContacto, borrarTodo or buscarContactos ends   *)
(* without an exception leaving it; the exception of the repository call   *)
(* it made ends in its error notification.                                 *)
(***************************************************************************)
C19_NothingPropagates ==
    [][ (ui'.evento # ui.evento /\ ui'.manejador \in EntryPoints) =>
          /\ ~ui'.propagado
          /\ (last' # last /\ Lanzo(last')) => Cuenta(ui'.toasts, "error") = 1 ]_vars

\* A submission met a storage that refuses access: the error was shown and
\* nothing left the handler.
C19_Witness ==
    /\ ui.manejador = "handleFormSubmit"
    /\ almacen = "denegado"
    /\ last.result = ErrAcceso
    /\ ui.toasts = <<"error">>
    /\ ~ui.propagado

\* The identifier is in the collection stored under the key.
Almacenado(id) ==
    IF IsCF THEN id \in StoredIds(localStorage) ELSE SfKnown(localStorage, id)

(***************************************************************************)
(* C20: in the component version and in the framework-free page, a delete  *)
(* of one record that the user confirmed, for an identifier that is not in *)
(* the stored collection, shows a failure notification and no success      *)
(* notification.                                                           *)
(***************************************************************************)
C20_UnknownIdFailure ==
    [][ ( /\ ui'.evento # ui.evento
          /\ ui'.manejador \in {"eliminarContacto", "eliminarContactoEspecifico"}
          /\ ui'.confirm = "yes"
          /\ ~Almacenado(last'.arg.id) ) =>
          /\ Cuenta(ui'.toasts, "error") >= 1
          /\ Cuenta(ui'.toasts, "success") = 0 ]_vars

\* wasModified() of a stored record.
wasModified(c) == c.fechaCreacion # c.fechaActualizacion

(***************************************************************************)
(* C21: a record built from form data, which carries no timestamps, and    *)
(* stored by add has fechaCreacion = fechaActualizacion, and a stored      *)
(* record keeps wasModified() false in every step that is not an update.   *)
(***************************************************************************)
C21_CreatedUnmodified ==
    [][ /\ (OpStep("guardarContacto") /\ last'.result = "true") =>
              ~wasModified(localStorage'[Len(localStorage')])
        /\ ~OpStep("update") =>
              \A i \in DOMAIN localStorage, j \in DOMAIN localStorage' :
                  (localStorage[i].id = localStorage'[j].id
                   /\ ~wasModified(localStorage[i]))
                      => ~wasModified(localStorage'[j]) ]_vars

(***************************************************************************)
(* C22: the submit listener of the framework-free page accepts and stores  *)
(* a submission that has a name, an email, a subject and accepted terms    *)
(* but an empty phone and an empty message.                                *)
(***************************************************************************)
C22_SfOptionalFields ==
    [][ \A f \in SfForms, gid \in Ids :
          ( /\ sfSubmit(f, gid)
            /\ f.nombre # "" /\ f.correo # "" /\ f.motivo # ""
            /\ f.aceptaTerminos
            /\ f.telefono = "" /\ f.mensaje = ""
            /\ Len(localStorage) < MaxSfContacts ) =>
              /\ localStorage' = Append(localStorage, sfNuevoContacto(f, gid, now))
              /\ ui'.toasts = <<"success">> ]_vars

\* An email as the comparison of the claim sees it.
EmailNorm(email) == toLowerCase(trim(email))

C24_UpdateKeepsCreation ==
    [][ (OpStep("update") /\ last'.result = "true") =>
          /\ Len(localStorage') = Len(localStorage)
          /\ \A i \in DOMAIN localStorage :
                 localStorage'[i].fechaCreacion = localStorage[i].fechaCreacion ]_vars

\* The place of a script's path in loadOrder.
Pos(src) == CHOOSE k \in DOMAIN loadOrder : fullPath(loadOrder[k]) = src

\* The script elements a step put into document.head.
Nuevos == (DOMAIN loader'.head) \ (DOMAIN loader.head)

(***************************************************************************)
(* C25: loadAllComponents requests the scripts in the order of loadOrder:  *)
(* a step appends at most one script; when a run appends one, every script *)
(* appended before has had its load or error event, the scripts this run   *)
(* requested before come earlier in loadOrder, and every component that    *)
(* comes earlier in loadOrder is loaded or was requested by this run.      *)
(***************************************************************************)
C25_LoadInOrder ==
    [][ /\ Cardinality(Nuevos) <= 1
        /\ \A j \in Nuevos :
             loader'.head[j].por > 0 =>
               /\ \A i \in 1..(j - 1) : loader'.head[i].estado # "cargando"
               /\ \A i \in 1..(j - 1) :
                      loader'.head[i].por = loader'.head[j].por =>
                          Pos(loader'.head[i].src) < Pos(loader'.head[j].src)
               /\ \A k \in 1..(Pos(loader'.head[j].src) - 1) :
                      \/ fullPath(loadOrder[k]) \in loader'.loadedComponents
                      \/ \E i \in 1..(j - 1) :
                             /\ loader'.head[i].por = loader'.head[j].por
                             /\ loader'.head[i].src = fullPath(loadOrder[k]) ]_vars

\* One run requested every component of loadOrder, the second of which
\* failed to load.
C25_Witness ==
    /\ Len(loader.head) = Len(loadOrder)
    /\ \A i \in DOMAIN loader.head :
           /\ loader.head[i].por = 1
           /\ loader.head[i].src = fullPath(loadOrder[i])
    /\ loader.head[2].estado = "onerror"
    /\ loader.inits = 1

(***************************************************************************)
(* C26: a call of loadAllComponents made while a load is in progress       *)
(* returns with no script requested and the application not initialized,   *)
(* a load starts only when none is in progress, and isLoading is true      *)
(* exactly while a run of loadAllComponents awaits a script: it is false   *)
(* again when the run has ended, initializeApplication having thrown or    *)
(* not.                                                                    *)
(***************************************************************************)
C26_OneLoadAtATime ==
    [][ /\ loader'.isLoading <=> loader'.carga.pc = "await"
        /\ (loader'.ultimo.op = "loadAllComponents" /\ loader' # loader) =>
              IF loader.isLoading
              THEN loader' = [loader EXCEPT !.ultimo = [op |-> "loadAllComponents",
                                                        arg |-> "",
                                                        result |-> "returned"]]
              ELSE /\ loader'.ultimo.result = "started"
                   /\ loader'.cargas = loader.cargas + 1
        /\ loader'.inits > loader.inits =>
              /\ ~loader'.isLoading
              /\ loader'.carga = SinCarga ]_vars

\* A call came while the first script of a load was awaited, and returned.
C26_Witness ==
    /\ loader.isLoading
    /\ loader.ultimo = [op |-> "loadAllComponents", arg |-> "",
                        result |-> "returned"]
    /\ Len(loader.head) = 1
    /\ loader.inits = 0

\* The components after loadOrder[k] that are not loaded.
Restantes(k) ==
    {m \in (k + 1)..Len(loadOrder) :
         fullPath(loadOrder[m]) \notin loader.loadedComponents}

\* The error event of the script that loadAllComponents awaits fires in
\* this step.
FalloEsperado ==
    /\ loader.carga.pc = "await"
    /\ loader.head[loader.carga.script].estado = "cargando"
    /\ loader'.head[loader.carga.script].estado = "onerror"

(***************************************************************************)
(* C27: when the script that loadAllComponents awaits fails to load, its   *)
(* path is not recorded in loadedComponents and the run goes on: the next  *)
(* component of loadOrder that is not loaded is requested, or, after the   *)
(* last one, the application is initialized and the run ends.              *)
(***************************************************************************)
C27_FailureDoesNotAbort ==
    [][ FalloEsperado =>
          /\ loader'.loadedComponents = loader.loadedComponents
          /\ IF Restantes(loader.carga.k) = {}
             THEN /\ Nuevos = {}
                  /\ loader'.inits = loader.inits + 1
                  /\ ~loader'.isLoading
             ELSE LET m == CHOOSE m \in Restantes(loader.carga.k) :
                               \A n \in Restantes(loader.carga.k) : m <= n
                  IN  /\ Nuevos = {Len(loader.head) + 1}
                      /\ loader'.head[Len(loader.head) + 1].src =
                             fullPath(loadOrder[m])
                      /\ loader'.isLoading
                      /\ loader'.inits = loader.inits ]_vars

\* Every script of the first run failed; all were requested, none is
\* recorded, and the application was initialized.
C27_Witness ==
    /\ Len(loader.head) = Len(loadOrder)
    /\ \A i \in DOMAIN loader.head :
           /\ loader.head[i].estado = "onerror"
           /\ loader.head[i].src = fullPath(loadOrder[i])
    /\ loader.loadedComponents = {}
    /\ loader.inits = 1
    /\ ~loader.isLoading

(***************************************************************************)
(* C28: whatever the interleaving of loadAllComponents and                 *)
(* loadComponentOnDemand, a step appends a script only for a component     *)
(* that is neither loaded nor currently loading.                           *)
(***************************************************************************)
C28_NoSecondRequest ==
    [][ \A n \in Nuevos :
          /\ loader'.head[n].src \notin loader.loadedComponents
          /\ \A i \in DOMAIN loader.head :
                 loader.head[i].src = loader'.head[n].src =>
                     loader.head[i].estado # "cargando" ]_vars

(***************************************************************************)
(* C29: when MainPage.handleFormSubmission shows its success message, the  *)
(* submitted contact was added to the stored collection in that step: the  *)
(* collection is one record longer and its new record carries the          *)
(* submitted email.                                                        *)
(***************************************************************************)
C29_SuccessMeansStored ==
    [][ (HandlerStep("handleFormSubmission") /\ Cuenta(ui'.toasts, "success") > 0) =>
          /\ Len(localStorage') = Len(localStorage) + 1
          /\ EmailNorm(localStorage'[Len(localStorage')].email) =
                 EmailNorm(last'.arg.email) ]_vars

\* func is called in this step.
Invocada == Len(debounced'.invocaciones) > Len(debounced.invocaciones)

(***************************************************************************)
(* C30: for a function wrapped by debounce(func, wait), a step calls func  *)
(* at most once, only when wait has gone by since the last call of the     *)
(* wrapper, with the arguments of that last call, and only when func was   *)
(* not yet called for it; a call of the wrapper leaves exactly one timer   *)
(* pending until func is called for it or the next call replaces it.       *)
(***************************************************************************)
C30_Debounce ==
    [][ /\ Invocada =>
              /\ Len(debounced'.invocaciones) = Len(debounced.invocaciones) + 1
              /\ LET inv == debounced'.invocaciones[Len(debounced'.invocaciones)]
                 IN  /\ inv.args = debounced.ultima.args
                     /\ inv.n = debounced.llamadas
                     /\ inv.t >= debounced.ultima.t + debounced.wait
                     /\ \A i \in DOMAIN debounced.invocaciones :
                            debounced.invocaciones[i].n < inv.n
        /\ debounced'.llamadas > 0 =>
              LET servida == \E i \in DOMAIN debounced'.invocaciones :
                                 debounced'.invocaciones[i].n = debounced'.llamadas
              IN  IF servida
                  THEN debounced'.timers = {}
                  ELSE Cardinality(debounced'.timers) = 1 ]_vars

\* Two bursts: func was called after the first, with the arguments of its
\* last call, and again after the second, which ended with other arguments.
C30_Witness ==
    /\ debounced.wait = 1
    /\ debounced.llamadas = 3
    /\ Len(debounced.invocaciones) = 2
    /\ debounced.invocaciones[1] = [args |-> "e2", n |-> 2, t |-> 1]
    /\ debounced.invocaciones[2].args = "e1"
    /\ debounced.invocaciones[2].n = 3

====
